---- MODULE Spec2Model ----
(***************************************************************************)
(* Device lifecycle orchestration core of DAFT/AFT.                        *)
(*                                                                         *)
(*   Spec      host-local tier: DevicesManager.reserve / _do_reserve /     *)
(*             _release / _flash run by concurrent processes that share    *)
(*             the single lock path /var/lock/daft_dut_lock.               *)
(*   ModeSpec  PCDevice._enter_mode, the bounded-retry boot-mode machine.  *)
(*   FleetSpec fleet tier: FlashMode.execute, reserve_device,              *)
(*             _reserve_device, release_device on content-based lock files.*)
(*                                                                         *)
(* Each specification leaves the variables of the other two unchanged.     *)
(***************************************************************************)
EXTENDS Integers, Sequences, FiniteSets, TLC

(***************************************************************************)
(* Bounds of the model.                                                    *)
(***************************************************************************)
MaxDevices == 2
MaxTimeout == 12
MaxRetries == 2
MaxFleet == 2
MaxElapsed == 30

(***************************************************************************)
(* Program constants.                                                      *)
(***************************************************************************)
SWEEP_INTERVAL == 10
RETRY_ATTEMPTS == 4
FLEET_SWEEP_INTERVAL == 10
CONNECTION_RETRIES == 3
CONNECTION_PAUSE == 2
\* PCDevice._BOOT_TIMEOUT and PCDevice._POLLING_INTERVAL, in seconds.
BOOT_TIMEOUT == 240
POLLING_INTERVAL == 10
\* The largest boot timeout and polling interval tried besides the defaults.
MaxBootTimeout == 7
MaxPollingInterval == 3
\* The most partitions of the target device find_root_partition probes.
MaxPartitions == 2
\* thread.join(5) in the finally clause of main, in seconds.
JOIN_TIMEOUT == 5
\* The most recorder threads registered in one interpreter.
MaxRecorders == 2

\* Two process slots: a slot whose process has exited is taken by the next
\* process started on the host (Start), so any number of processes run over
\* time and two of them at once.
Procs == {1, 2}
\* Inodes that can be alive at once: the one the path names plus one per
\* process (its open lock file).
Inodes == 1..(Cardinality(Procs) + 1)
\* Timeouts the callers pass: every fifth second up to the largest, and the largest.
TimeoutChoices == {t \in (-1)..MaxTimeout : t % 5 = 0 \/ t = MaxTimeout \/ t < 0}

VARIABLES
    \* ---- host-local tier ----
    path,    \* inode the directory entry /var/lock/daft_dut_lock names, 0 = no file
    locked,  \* locked[i]: process whose open file holds the flock on inode i, 0 = none
    proc,    \* proc[p]: the locals of process p, see Fresh
    gpio,    \* gpio[port]: what /sys/class/gpio/gpio<port>/value holds
    \* ---- boot-mode state machine ----
    dut,     \* the device and the locals of _enter_mode, see Off
    \* ---- fleet tier ----
    lockfiles, \* lockfiles[d]: the lines of /etc/daft/lockfiles/<d>
    ctrl,      \* ctrl[c]: the locals of controller run c, see Idle
    terminal,  \* devices whose flash failed in a finished run that blacklists
    \* ---- remote command execution ----
    rx,        \* the locals of one remote_execute call, see NoCall
    \* ---- the device's write sequence and the single-tier main ----
    poll,      \* the locals of one wait_for_responsive_ip_for_pc_device call
    inst,      \* the mounts and the locals of _install_tester_public_key
    wr,        \* one _flash call and the write_image calls it makes
    mn         \* the single-tier main, its recorder threads and the stop flag

lvars == <<path, locked, proc, gpio>>
mvars == <<dut>>
fvars == <<lockfiles, ctrl, terminal>>
rvars == <<rx>>

pvars == <<poll>>
ivars == <<inst>>
wvars == <<wr>>
nvars == <<mn>>
xvars == <<pvars, ivars, wvars, nvars>>

vars == <<lvars, mvars, fvars, rvars, xvars>>

(***************************************************************************)
(* Host-local tier                                                         *)
(***************************************************************************)

\* A process before it calls reserve().
Fresh ==
    [pc |-> "idle",
     ndev |-> 0,           \* len(devices)
     cand |-> 0,           \* index of the candidate being tried
     timeout |-> 0,        \* the timeout argument
     elapsed |-> 0,        \* time.time() - start
     tries |-> 0,          \* os.open calls of this _do_reserve
     lockfile |-> 0,       \* inode of the file opened in _do_reserve, 0 = none
     lock_files |-> <<>>,  \* self._lock_files: inodes of the kept lock files
     device |-> 0,         \* the device _do_reserve returned, 0 = None
     flash_retries |-> 0,  \* args.flash_retries
     flash_attempt |-> 0,  \* flash_attempt of _flash
     stub |-> 0,           \* the write_image invocation that succeeds, 0 = none does
     writes |-> 0,         \* write_image invocations of this _flash call
     relret |-> "none",    \* the caller of the running _release
     flashres |-> "none",  \* how _flash ended
     outcome |-> "none"]   \* how reserve()'s scope ended

\* Inodes some directory entry or open file still refers to.
InUse ==
    {path} \cup {proc[p].lockfile : p \in Procs}
           \cup UNION {{proc[p].lock_files[k] : k \in 1..Len(proc[p].lock_files)} : p \in Procs}

\* os.open(..., O_WRONLY | O_CREAT) on a missing path creates a new inode.
FreshInode ==
    CHOOSE i \in Inodes : i \notin InUse /\ \A j \in Inodes : j \notin InUse => i <= j

\* The pins PCDevice drives: gpio60 and the boot-select relay gpio48.
Ports == {"60", "48"}

\* set_gpio(port, value): Path(.../gpio<port>/value).write_text(value)
SetGpio(pins, port, value) == [pins EXCEPT ![port] = value]

\* export_gpio(port, value): the pin is exported if it was not, its direction
\* is written, and value is written to it.
ExportGpio(pins, port, value) == SetGpio(pins, port, value)

\* PCDevice.__init__: export_gpio(port="60", value="0") and
\* export_gpio(port="48", value="0"), once for every device built.
PCDeviceInit(pins) == ExportGpio(ExportGpio(pins, "60", "0"), "48", "0")

\* _reserve builds a device for each of the n matching configurations
\* before _do_reserve is called.
BuildDevices(pins, n) == IF n > 0 THEN PCDeviceInit(pins) ELSE pins

\* write_image begins with _enter_mode("service_mode", ...), whose every
\* attempt begins with set_gpio(port="48", value="1"); a call that did not
\* complete may have been ended before the pin was written.
RelayAfterWrite(pins, completed) ==
    IF completed THEN {SetGpio(pins, "48", "1")}
                 ELSE {pins, SetGpio(pins, "48", "1")}

LInit ==
    /\ path = 0
    /\ locked = [i \in Inodes |-> 0]
    /\ proc = [p \in Procs |-> Fresh]
    /\ gpio = [port \in Ports |-> "0"]

\* The model names of the device configurations and of args.machine.
Models == {"pc", "PC", "gigabyte"}

\* str.lower()
Lower(m) == IF m = "PC" THEN "pc" ELSE m

\* _reserve: the positions of the configurations with
\* device_config["model"].lower() == self._args.machine.lower()
Matching(configs, machine) ==
    {i \in DOMAIN configs : Lower(configs[i]) = Lower(machine)}

\* A reservation that never finds its candidate list empty.
NoCandidatesIgnored(n) == FALSE

\* if len(devices) == 0:
NoCandidates(n) == n = 0

\* reserve() -> _reserve() -> _do_reserve(devices, name, timeout): entry.
\* raise AFTConfigurationError when no configuration matches; device stays
\* None and reserve()'s finally has nothing to release.
Reserve(p) ==
    /\ proc[p].pc = "idle"
    /\ \E configs \in [1..MaxDevices -> Models], machine \in Models, t \in TimeoutChoices :
         LET n == Cardinality(Matching(configs, machine)) IN
           /\ proc' = [proc EXCEPT ![p] =
                      IF NoCandidates(n)
                        THEN [@ EXCEPT !.pc = "out", !.ndev = n,
                                       !.outcome = "AFTConfigurationError"]
                        ELSE [@ EXCEPT !.pc = "while", !.ndev = n, !.timeout = t]]
           /\ gpio' = BuildDevices(gpio, n)
    /\ UNCHANGED <<path, locked, mvars, fvars, rvars, xvars>>

\* A reservation loop that allows itself one more sweep.
WhileCondLate(e, t) == e < t + SWEEP_INTERVAL

\* A reservation loop that is entered when no time is left.
WhileCondInclusive(e, t) == e <= t

\* while time.time() - start < timeout:
WhileCond(e, t) == e < t

\* The loop is entered with the first candidate, or left:
\* raise AFTTimeoutError (device stays None, nothing to release).
While(p) ==
    /\ proc[p].pc = "while"
    /\ proc' = [proc EXCEPT ![p] =
                  IF WhileCond(@.elapsed, @.timeout)
                    THEN [@ EXCEPT !.pc = "open", !.cand = 1]
                    ELSE [@ EXCEPT !.pc = "out", !.outcome = "AFTTimeoutError"]]
    /\ UNCHANGED <<path, locked, gpio, mvars, fvars, rvars, xvars>>

\* lockfile = os.fdopen(os.open(path, O_WRONLY | O_CREAT)): the same path
\* for every candidate.
Open(p) ==
    /\ proc[p].pc = "open"
    /\ LET ino == IF path = 0 THEN FreshInode ELSE path IN
         /\ path' = ino
         /\ proc' = [proc EXCEPT ![p] = [@ EXCEPT !.pc = "flock", !.lockfile = ino,
                                                  !.tries = @ + 1]]
    /\ UNCHANGED <<locked, gpio, mvars, fvars, rvars, xvars>>

\* fcntl.flock(lockfile, LOCK_EX | LOCK_NB) is granted iff no open file holds
\* the lock on that inode.
FlockGranted(i) == locked[i] = 0

\* Granted: the file is kept in _lock_files, the atexit release is registered
\* and the device is returned to the body of the scope, which calls
\* try_flash_device with the process's args.flash_retries against a
\* write_image whose stub-th invocation is the first to succeed.
\* EAGAIN: "Device busy.", the file is dropped and the next candidate is
\* tried; after the last candidate the process sleeps.
Flock(p) ==
    /\ proc[p].pc = "flock"
    /\ IF FlockGranted(proc[p].lockfile)
         THEN /\ locked' = [locked EXCEPT ![proc[p].lockfile] = p]
              /\ \E r \in (-1)..MaxRetries, s \in 0..MaxRetries :
                   /\ s <= r \/ s = 0
                   /\ proc' = [proc EXCEPT ![p] =
                                 [@ EXCEPT !.pc = "flash",
                                           !.lock_files = Append(@, proc[p].lockfile),
                                           !.device = proc[p].cand,
                                           !.lockfile = 0, !.ndev = 0, !.cand = 0,
                                           !.timeout = 0, !.elapsed = 0, !.tries = 0,
                                           !.flash_retries = r, !.stub = s]]
         ELSE /\ proc' = [proc EXCEPT ![p] =
                            IF @.cand < @.ndev
                              THEN [@ EXCEPT !.pc = "open", !.lockfile = 0, !.cand = @ + 1]
                              ELSE [@ EXCEPT !.pc = "sleep", !.lockfile = 0]]
              /\ UNCHANGED <<locked, gpio, mvars, fvars, rvars, xvars>>
    /\ UNCHANGED <<path, gpio, mvars, fvars, rvars, xvars>>

\* A sleep that lasts two sweep intervals.
SleepTwice(p) ==
    /\ proc[p].pc = "sleep"
    /\ proc' = [proc EXCEPT ![p] =
                  [@ EXCEPT !.pc = "while", !.elapsed = @ + 2 * SWEEP_INTERVAL]]
    /\ UNCHANGED <<path, locked, gpio, mvars, fvars, rvars, xvars>>

\* time.sleep(10)
Sleep(p) ==
    /\ proc[p].pc = "sleep"
    /\ proc' = [proc EXCEPT ![p] =
                  [@ EXCEPT !.pc = "while", !.elapsed = @ + SWEEP_INTERVAL]]
    /\ UNCHANGED <<path, locked, gpio, mvars, fvars, rvars, xvars>>

\* A flash loop that gives up one attempt early.
FlashLoopCondShort(a, r) == a < r - 1

\* A flash loop that tests its condition after the first attempt only.
FlashLoopCondAtLeastOnce(a, r) == a < r \/ a = 0

\* _flash: while flash_attempt < flash_retries: flash_attempt += 1
FlashLoopCond(a, r) == a < r

\* Falling out of the loop returns None to the body.
FlashLoop(p) ==
    /\ proc[p].pc = "flash"
    /\ proc' = [proc EXCEPT ![p] =
                  IF FlashLoopCond(@.flash_attempt, @.flash_retries)
                    THEN [@ EXCEPT !.pc = "write", !.flash_attempt = @ + 1]
                    ELSE [@ EXCEPT !.pc = "body", !.flashres = "None"]]
    /\ UNCHANGED <<path, locked, gpio, mvars, fvars, rvars, xvars>>

\* if (flash_retries - flash_attempt) == 0: self._release(device); raise
LastAttempt(a, r) == r - a = 0

\* device.write_image(args.file_name): the invocation the stub lets succeed
\* returns the device; a failing one (except Exception) goes round the loop,
\* or on the last attempt releases and re-raises.
Write(p) ==
    /\ proc[p].pc = "write"
    /\ proc' = [proc EXCEPT ![p] =
                  IF @.writes + 1 = @.stub
                    THEN [@ EXCEPT !.pc = "body", !.writes = @ + 1, !.flashres = "device"]
                    ELSE IF LastAttempt(@.flash_attempt, @.flash_retries)
                           THEN [@ EXCEPT !.pc = "rel_close", !.writes = @ + 1,
                                          !.relret = "flash"]
                           ELSE [@ EXCEPT !.pc = "flash", !.writes = @ + 1]]
    /\ gpio' \in RelayAfterWrite(gpio, proc[p].writes + 1 = proc[p].stub)
    /\ UNCHANGED <<path, locked, mvars, fvars, rvars, xvars>>

\* A flash loop that takes a user interrupt for a failed attempt.
WriteInterruptRetried(p) ==
    /\ proc[p].pc = "write"
    /\ proc' = [proc EXCEPT ![p] =
                  [@ EXCEPT !.pc = "flash", !.writes = @ + 1,
                            !.flashres = "KeyboardInterrupt"]]
    /\ gpio' \in RelayAfterWrite(gpio, FALSE)
    /\ UNCHANGED <<path, locked, mvars, fvars, rvars, xvars>>

\* except KeyboardInterrupt: raise. The interrupt leaves _flash and the body
\* of the scope; reserve()'s finally releases.
WriteInterrupt(p) ==
    /\ proc[p].pc = "write"
    /\ proc' = [proc EXCEPT ![p] =
                  [@ EXCEPT !.pc = "rel_close", !.writes = @ + 1,
                            !.flashres = "KeyboardInterrupt",
                            !.outcome = "KeyboardInterrupt", !.relret = "finally"]]
    /\ gpio' \in RelayAfterWrite(gpio, FALSE)
    /\ UNCHANGED <<path, locked, mvars, fvars, rvars, xvars>>

\* The rest of the body of the scope (boot, save ip) ends by a normal return,
\* an error or a user interrupt; reserve()'s finally runs on each.
BodyExits == {"return", "error", "KeyboardInterrupt"}

BodyExit(p) ==
    /\ proc[p].pc = "body"
    /\ \E x \in BodyExits :
         proc' = [proc EXCEPT ![p] =
                    [@ EXCEPT !.pc = "rel_close", !.outcome = x, !.relret = "finally",
                              !.flash_retries = 0, !.flash_attempt = 0, !.stub = 0,
                              !.writes = 0, !.flashres = "none"]]
    /\ UNCHANGED <<path, locked, gpio, mvars, fvars, rvars, xvars>>

\* A release that closes nothing: the flock outlives the scope.
ClosedKeepsLock(lk, fs, p) == lk

\* i[1].close() drops the flock the closed file holds.
Closed(lk, fs, p) ==
    IF fs # <<>> /\ lk[Head(fs)] = p THEN [lk EXCEPT ![Head(fs)] = 0] ELSE lk

\* _release, the loop: the first kept lock file is closed and removed from
\* _lock_files; reserved_device is a device object, so the path is looked at.
RelClose(p) ==
    /\ proc[p].pc = "rel_close"
    /\ locked' = Closed(locked, proc[p].lock_files, p)
    /\ proc' = [proc EXCEPT ![p] =
                  [@ EXCEPT !.pc = "rel_isfile",
                            !.lock_files = IF @ # <<>> THEN Tail(@) ELSE @]]
    /\ UNCHANGED <<path, gpio, mvars, fvars, rvars, xvars>>

\* Where control goes when _release is left, normally or by an error raised
\* in it. The release inside _flash is followed by the (re-)raise, which
\* leaves the body, so reserve()'s finally releases again; after that release
\* the scope is left; after the atexit release the process is gone.
AfterRelease(s, err) ==
    CASE s.relret = "flash" ->
           [s EXCEPT !.pc = "rel_close", !.relret = "finally",
                     !.flashres = IF err = "none" THEN "raised" ELSE err,
                     !.outcome = IF err = "none" THEN "FlashError" ELSE err]
      [] s.relret = "finally" ->
           [s EXCEPT !.pc = "out", !.relret = "none",
                     !.outcome = IF err = "none" THEN @ ELSE err,
                     !.flash_retries = 0, !.flash_attempt = 0, !.stub = 0,
                     !.writes = 0, !.flashres = "none"]
      [] OTHER -> [Fresh EXCEPT !.pc = "exited"]

\* if os.path.isfile(path):
RelIsfile(p) ==
    /\ proc[p].pc = "rel_isfile"
    /\ proc' = [proc EXCEPT ![p] =
                  IF path # 0 THEN [@ EXCEPT !.pc = "rel_unlink"]
                              ELSE AfterRelease(@, "none")]
    /\ UNCHANGED <<path, locked, gpio, mvars, fvars, rvars, xvars>>

\* os.unlink(path) removes the directory entry, whichever inode it names.
Unlinked(f) == 0

\* FileNotFoundError when the entry has gone since isfile.
RelUnlink(p) ==
    /\ proc[p].pc = "rel_unlink"
    /\ IF path # 0
         THEN /\ path' = Unlinked(path)
              /\ proc' = [proc EXCEPT ![p] = AfterRelease(@, "none")]
         ELSE /\ UNCHANGED path
              /\ proc' = [proc EXCEPT ![p] = AfterRelease(@, "FileNotFoundError")]
    /\ UNCHANGED <<locked, gpio, mvars, fvars, rvars, xvars>>

\* atexit.register(self._release, device): a process that acquired runs
\* _release once more when the interpreter exits; one that did not just ends.
AtExit(p) ==
    /\ proc[p].pc = "out"
    /\ proc' = [proc EXCEPT ![p] =
                  IF @.device # 0
                    THEN [@ EXCEPT !.pc = "rel_close", !.relret = "atexit",
                                   !.outcome = "none"]
                    ELSE [Fresh EXCEPT !.pc = "exited"]]
    /\ UNCHANGED <<path, locked, gpio, mvars, fvars, rvars, xvars>>

\* Another process is started on the host.
Start(p) ==
    /\ proc[p].pc = "exited"
    /\ proc' = [proc EXCEPT ![p] = Fresh]
    /\ UNCHANGED <<path, locked, gpio, mvars, fvars, rvars, xvars>>

Next ==
    \E p \in Procs :
        \/ Reserve(p)
        \/ While(p)
        \/ Open(p)
        \/ Flock(p)
        \/ Sleep(p)
        \/ FlashLoop(p)
        \/ Write(p)
        \/ WriteInterrupt(p)
        \/ BodyExit(p)
        \/ RelClose(p)
        \/ RelIsfile(p)
        \/ RelUnlink(p)
        \/ AtExit(p)
        \/ Start(p)

(***************************************************************************)
(* Boot-mode state machine: PCDevice._enter_mode                           *)
(***************************************************************************)

Targets == {"test_mode", "service_mode"}

\* What the remote marker check finds: the service marker in /proc/version,
\* no marker, or a check that failed to execute (CalledProcessError).
Markers == {"present", "absent", "failed"}

\* The device before _enter_mode is called.
Off ==
    [pc |-> "idle",
     target |-> "none",
     kb_emulator |-> FALSE,         \* a keyboard emulator is configured
     attempt |-> 0,                 \* iterations of the retry loop begun
     power_cycles |-> 0,            \* _power_cycle invocations
     relay |-> "unset",             \* value of the boot-select pin, gpio48
     power |-> "on",                \* the cutter
     keys_sent |-> FALSE,           \* keystrokes sent in this attempt
     ip_address |-> FALSE,          \* wait_for_responsive_ip found an address
     dut_in_service_mode |-> FALSE, \* what verify_device_mode returned
     marker |-> "none",             \* what the marker check found
     hooks |-> 0,                   \* _post_boot_hooks invocations
     failed |-> 0,                  \* attempts that ended without success
     cutter_errors |-> 0,           \* cutter errors logged by the except clause
     interrupted_in |-> "none",     \* the step a user interrupt arrived in
     ok_attempts |-> {}]            \* attempts in which every step succeeded

MInit == dut = Off

\* boot_internal_test_mode, boot_usb_test_mode, boot_usb_service_mode,
\* write_image: _enter_mode(target, keystrokes) on a device with or without
\* a keyboard emulator.
EnterMode ==
    /\ dut.pc = "idle"
    /\ \E t \in Targets, k \in BOOLEAN :
         dut' = [dut EXCEPT !.pc = "for", !.target = t, !.kb_emulator = k]
    /\ UNCHANGED <<lvars, fvars, rvars, xvars>>

\* A retry loop with one iteration too many.
RetryRangeFive(a) == a < RETRY_ATTEMPTS + 1

\* for _ in range(self._RETRY_ATTEMPTS):
RetryRange(a) == a < RETRY_ATTEMPTS

\* The next attempt begins, or the loop is exhausted:
\* raise AFTDeviceError("Could not set the device in mode " + target).
For ==
    /\ dut.pc = "for"
    /\ dut' = IF RetryRange(dut.attempt)
                THEN [dut EXCEPT !.pc = "relay", !.attempt = @ + 1,
                                 !.keys_sent = FALSE, !.ip_address = FALSE,
                                 !.dut_in_service_mode = FALSE, !.marker = "none"]
                ELSE [dut EXCEPT !.pc = "raised"]
    /\ UNCHANGED <<lvars, fvars, rvars, xvars>>

\* self._set_boot_relay(target): gpio48 is 1 for service_mode, 0 for test_mode.
BootRelay(t) == IF t = "service_mode" THEN "1" ELSE "0"

SetBootRelay ==
    /\ dut.pc = "relay"
    /\ dut' = [dut EXCEPT !.pc = "detach", !.relay = BootRelay(dut.target)]
    /\ UNCHANGED <<lvars, fvars, rvars, xvars>>

\* self._power_cycle(): self.detach() ...
Detach ==
    /\ dut.pc = "detach"
    /\ dut' = [dut EXCEPT !.pc = "settle", !.power = "off",
                          !.power_cycles = @ + 1]
    /\ UNCHANGED <<lvars, fvars, rvars, xvars>>

\* A handler that lets a cutter error leave _enter_mode.
AfterCutterErrorAborts == "raised"

\* except: logger.error(...) and the for loop goes on to its next iteration.
AfterCutterError == "for"

\* ... whose cutter raises: the power cycle was begun and the attempt ends.
DetachFails ==
    /\ dut.pc = "detach"
    /\ dut' = [dut EXCEPT !.pc = AfterCutterError, !.failed = @ + 1,
                          !.cutter_errors = @ + 1,
                          !.power_cycles = @ + 1]
    /\ UNCHANGED <<lvars, fvars, rvars, xvars>>

\* ... sleep(self._POWER_CYCLE_DELAY) ...
Settle ==
    /\ dut.pc = "settle"
    /\ dut' = [dut EXCEPT !.pc = "attach"]
    /\ UNCHANGED <<lvars, fvars, rvars, xvars>>

\* ... self.attach()
Attach ==
    /\ dut.pc = "attach"
    /\ dut' = [dut EXCEPT !.pc = "keys", !.power = "on"]
    /\ UNCHANGED <<lvars, fvars, rvars, xvars>>

\* if self.kb_emulator: self.kb_emulator.send_keystrokes(keystrokes)
\* else: logger.warning(...)
SendKeystrokes ==
    /\ dut.pc = "keys"
    /\ dut' = [dut EXCEPT !.pc = "poll", !.keys_sent = dut.kb_emulator]
    /\ UNCHANGED <<lvars, fvars, rvars, xvars>>

\* ip_address = self.wait_for_responsive_ip(): an address or None.
WaitForResponsiveIp ==
    /\ dut.pc = "poll"
    /\ \E found \in BOOLEAN :
         dut' = [dut EXCEPT !.pc = "verify", !.ip_address = found]
    /\ UNCHANGED <<lvars, fvars, rvars, xvars>>

\* common.verify_device_mode: True iff the marker was read and is present;
\* a CalledProcessError of the check is caught and gives False.
VerifyDeviceMode(m) == m = "present"

\* booted_in_required_mode
BootedInRequiredMode(svc, t) ==
    \/ svc /\ t = "service_mode"
    \/ ~svc /\ t = "test_mode"

\* if ip_address and booted_in_required_mode:
SuccessCond(ip, booted) == ip /\ booted

\* The mode check is made whether or not an address was found; then the
\* attempt is judged: the post-boot hooks follow, or "Failed entering" is
\* logged and the loop goes on.
Verify ==
    /\ dut.pc = "verify"
    /\ \E m \in Markers :
         LET svc == VerifyDeviceMode(m) IN
           dut' = IF SuccessCond(dut.ip_address, BootedInRequiredMode(svc, dut.target))
                    THEN [dut EXCEPT !.pc = "hooks", !.marker = m,
                                     !.dut_in_service_mode = svc]
                    ELSE [dut EXCEPT !.pc = "for", !.marker = m,
                                     !.dut_in_service_mode = svc, !.failed = @ + 1]
    /\ UNCHANGED <<lvars, fvars, rvars, xvars>>

\* The environment let the attempt succeed: an address answered and the mode
\* check reports the requested target.
EnvReportsTarget(d) ==
    d.ip_address /\ (VerifyDeviceMode(d.marker) <=> d.target = "service_mode")

\* A retry loop without the return: it tries again after a success.
AfterHooksGoesOn == "for"

\* return, after self._post_boot_hooks(target)
AfterHooks == "returned"

PostBootHooks ==
    /\ dut.pc = "hooks"
    /\ dut' = [dut EXCEPT !.pc = AfterHooks, !.hooks = @ + 1,
                          !.ok_attempts = IF EnvReportsTarget(dut)
                                            THEN @ \cup {dut.attempt} ELSE @]
    /\ UNCHANGED <<lvars, fvars, rvars, xvars>>

\* The steps in which something other than a user interrupt can be raised:
\* the pin write, the cutter, the keyboard emulator, the ssh calls of the
\* poll and of the mode check, and the routing fix-up of service mode.
CanRaise(d) ==
    \/ d.pc \in {"relay", "attach", "poll", "verify"}
    \/ d.pc = "keys" /\ d.kb_emulator
    \/ d.pc = "hooks" /\ d.target = "service_mode"

\* except: (everything but KeyboardInterrupt) the error is logged and the
\* loop goes on.
StepRaises ==
    /\ CanRaise(dut)
    /\ dut' = [dut EXCEPT !.pc = IF dut.pc = "attach" THEN AfterCutterError ELSE "for",
                          !.failed = @ + 1,
                          !.cutter_errors = IF dut.pc = "attach" THEN @ + 1 ELSE @,
                          !.hooks = IF dut.pc = "hooks" THEN @ + 1 ELSE @]
    /\ UNCHANGED <<lvars, fvars, rvars, xvars>>

\* The steps of one attempt.
AttemptSteps == {"relay", "detach", "settle", "attach", "keys", "poll", "verify", "hooks"}

\* A handler that takes a user interrupt for one more failed attempt.
InterruptSwallowed ==
    /\ dut.pc \in AttemptSteps
    /\ dut' = [dut EXCEPT !.pc = "for", !.failed = @ + 1,
                          !.interrupted_in = dut.pc]
    /\ UNCHANGED <<lvars, fvars, rvars, xvars>>

\* except KeyboardInterrupt: raise
Interrupt ==
    /\ dut.pc \in AttemptSteps
    /\ dut' = [dut EXCEPT !.pc = "interrupted", !.interrupted_in = dut.pc]
    /\ UNCHANGED <<lvars, fvars, rvars, xvars>>

\* The caller goes on to the next call.
Leave ==
    /\ dut.pc \in {"returned", "raised", "interrupted"}
    /\ dut' = Off
    /\ UNCHANGED <<lvars, fvars, rvars, xvars>>

ModeNext ==
    \/ EnterMode
    \/ For
    \/ SetBootRelay
    \/ Detach
    \/ DetachFails
    \/ Settle
    \/ Attach
    \/ SendKeystrokes
    \/ WaitForResponsiveIp
    \/ Verify
    \/ PostBootHooks
    \/ StepRaises
    \/ Interrupt
    \/ Leave

(***************************************************************************)
(* Fleet tier: daft reserve_device / FlashMode.execute                     *)
(***************************************************************************)

\* The sections of /etc/daft/devices.cfg, all of one device type.
Devices == 1..MaxFleet

\* Two controller slots; Finish frees a slot for the next run.
Ctrls == {1, 2}

\* args.dut, as the set of sections it names: all of them for the device
\* type, one for a device name, none for a name in no section.
Selectors == {Devices, {}} \cup {{d} : d \in Devices}

\* A selector test that every section passes.
MatchesAny(sel, d) == TRUE

\* device["device_type"].lower() == dut or device["device"].lower() == dut
Matches(sel, d) == d \in sel

\* The lines of a lock file.  "Remnant" is what is left of the blacklist
\* line when its first seven bytes are overwritten.
LOCKED == "Locked"
BLACKLISTED == "Blacklisted because flashing failed"
REMNANT == "sted because flashing failed"

\* not lockfile_contents
IsFree(c) == c = <<>>

\* A test that takes every file beginning with the sentinel for reserved.
IsReservedLoose(c) == c # <<>> /\ Head(c) = LOCKED

\* "Locked\n" == lockfile_contents
IsReserved(c) == c = <<LOCKED>>

\* Neither: the sweep passes over the device and leaves duts_blacklisted set.
IsBlacklisted(c) == ~IsFree(c) /\ ~IsReserved(c)

Idle ==
    [pc |-> "idle",
     dut |-> {},                    \* args.dut
     boot |-> FALSE,                \* args.boot
     no_black_listing |-> FALSE,    \* args.no_black_listing
     cursor |-> 0,                  \* position of `for device in config`
     dut_found |-> FALSE,
     duts_blacklisted |-> FALSE,
     contents |-> <<>>,             \* lockfile_contents
     device |-> 0,                  \* the reserved device, 0 for None
     elapsed |-> 0,                 \* seconds slept in the sweep
     opened |-> {},                 \* lock files opened by this _reserve_device
     seen |-> {},                   \* what the current sweep found in them
     exc |-> "none",                \* the exception in flight
     flash_failed |-> FALSE,        \* the remote flash command failed
     cycle |-> "none",              \* what _flash_cycle ended with
     remote |-> 0,                  \* remote commands this run has dispatched
     result |-> "none"]             \* how execute ended

FInit ==
    /\ lockfiles = [d \in Devices |-> <<>>]
    /\ ctrl = [c \in Ctrls |-> Idle]
    /\ terminal = {}

\* daft <dut> flash ...: execute enters reserve_device; _reserve_device
\* starts its first sweep.
FleetReserve(c) ==
    /\ ctrl[c].pc = "idle"
    /\ \E sel \in Selectors, b \in BOOLEAN, nb \in BOOLEAN :
         ctrl' = [ctrl EXCEPT ![c] =
                    [Idle EXCEPT !.pc = "sweep", !.dut = sel, !.boot = b,
                                 !.no_black_listing = nb, !.cursor = 1,
                                 !.duts_blacklisted = TRUE]]
    /\ UNCHANGED <<lockfiles, terminal, lvars, mvars, rvars, xvars>>

\* for device in config: a section that does not match is passed over; the
\* lock file of one that matches is opened and read.
FleetOpen(c) ==
    /\ ctrl[c].pc = "sweep"
    /\ ctrl[c].cursor \in Devices
    /\ ctrl' = [ctrl EXCEPT ![c] =
                  IF Matches(ctrl[c].dut, ctrl[c].cursor)
                    THEN [@ EXCEPT !.pc = "read", !.dut_found = TRUE,
                                   !.contents = lockfiles[ctrl[c].cursor],
                                   !.opened = @ \cup {ctrl[c].cursor}]
                    ELSE [@ EXCEPT !.cursor = @ + 1]]
    /\ UNCHANGED <<lockfiles, terminal, lvars, mvars, rvars, xvars>>

\* f.write("Locked\n") on a file opened for update and read to its end when
\* it was empty: seven bytes written at offset 0 of whatever the file holds
\* by now.
WriteLocked(c) ==
    CASE c = <<>> -> <<LOCKED>>
      [] Head(c) = LOCKED -> c
      [] Head(c) = BLACKLISTED -> <<LOCKED, REMNANT>> \o Tail(c)
      [] OTHER -> <<LOCKED>> \o Tail(c)

\* What a lock file holds, by its lines alone: nothing, the bare sentinel,
\* or anything else.
Class(c) ==
    CASE Len(c) = 0 -> "free"
      [] Len(c) = 1 /\ c[1] = LOCKED -> "reserved"
      [] OTHER -> "blacklisted"

\* The file was empty: it is marked and the device returned.  It was not:
\* a reserved device clears duts_blacklisted, and the loop goes on.
FleetJudge(c) ==
    /\ ctrl[c].pc = "read"
    /\ IF IsFree(ctrl[c].contents)
         THEN /\ lockfiles' = [lockfiles EXCEPT ![ctrl[c].cursor] = WriteLocked(@)]
              /\ ctrl' = [ctrl EXCEPT ![c] =
                            [@ EXCEPT !.pc = "held", !.device = ctrl[c].cursor,
                                      !.cursor = 0, !.contents = <<>>,
                                      !.dut_found = FALSE, !.duts_blacklisted = FALSE,
                                      !.elapsed = 0, !.opened = {}, !.seen = {}]]
         ELSE /\ ctrl' = [ctrl EXCEPT ![c] =
                            [@ EXCEPT !.pc = "sweep", !.cursor = @ + 1,
                                      !.contents = <<>>,
                                      !.seen = @ \cup {Class(ctrl[c].contents)},
                                      !.duts_blacklisted =
                                          IF IsReserved(ctrl[c].contents) THEN FALSE ELSE @]]
              /\ UNCHANGED lockfiles
    /\ UNCHANGED <<terminal, lvars, mvars, rvars, xvars>>

\* After the for loop: DeviceNameError (exit code 6), DevicesBlacklistedError
\* (exit code 5), or time.sleep(10) and the next sweep.  No clock is read.
FleetSweepEnd(c) ==
    /\ ctrl[c].pc = "sweep"
    /\ ctrl[c].cursor \notin Devices
    /\ \/ /\ ~ctrl[c].dut_found
          /\ ctrl' = [ctrl EXCEPT ![c] =
                        [Idle EXCEPT !.pc = "done", !.result = "6",
                                     !.exc = "DeviceNameError", !.dut = ctrl[c].dut,
                                     !.elapsed = ctrl[c].elapsed,
                                     !.opened = ctrl[c].opened, !.seen = ctrl[c].seen]]
       \/ /\ ctrl[c].dut_found /\ ctrl[c].duts_blacklisted
          /\ ctrl' = [ctrl EXCEPT ![c] =
                        [Idle EXCEPT !.pc = "done", !.result = "5",
                                     !.exc = "DevicesBlacklistedError", !.dut = ctrl[c].dut,
                                     !.elapsed = ctrl[c].elapsed,
                                     !.opened = ctrl[c].opened, !.seen = ctrl[c].seen]]
       \/ /\ ctrl[c].dut_found /\ ~ctrl[c].duts_blacklisted
          /\ ctrl[c].elapsed < MaxElapsed
          /\ ctrl' = [ctrl EXCEPT ![c] =
                        [@ EXCEPT !.cursor = 1, !.duts_blacklisted = TRUE,
                                  !.seen = {},
                                  !.elapsed = @ + FLEET_SWEEP_INTERVAL]]
    /\ UNCHANGED <<lockfiles, terminal, lvars, mvars, rvars, xvars>>

\* What _flash_cycle can end with.  execute_flashing turns every failure of
\* the remote command but a user interrupt into FlashImageError;
\* dut_flash_and_boot lets it through as it is.
FlashFailure(boot) == IF boot THEN "CalledProcessError" ELSE "FlashImageError"

\* A flash that dispatches the remote command and looks for the image after.
RemoteFlashUnchecked(image, out) ==
    [exc |-> IF image THEN out ELSE "ImageNameError", remote |-> 1]

\* execute_flashing and dut_flash_and_boot: if not os.path.isfile(image_file):
\* raise ImageNameError(); else the remote aft command is dispatched and
\* returns, fails or is interrupted.
RemoteFlash(image, out) ==
    IF image THEN [exc |-> out, remote |-> 1]
             ELSE [exc |-> "ImageNameError", remote |-> 0]

\* self._flash_cycle(beaglebone_dut, start_time)
FlashCycle(c) ==
    /\ ctrl[c].pc = "held"
    /\ \E image \in BOOLEAN, out \in {"none", "KeyboardInterrupt", "failed"} :
         LET r == RemoteFlash(image, out)
             e == r.exc IN
         ctrl' = [ctrl EXCEPT ![c] =
                    [@ EXCEPT !.pc = "release",
                              !.flash_failed = (e = "failed"),
                              !.cycle = e,
                              !.remote = r.remote,
                              !.exc = IF e = "failed" THEN FlashFailure(ctrl[c].boot) ELSE e]]
    /\ UNCHANGED <<lockfiles, terminal, lvars, mvars, rvars, xvars>>

\* finally: release_device(device): open(lockfile, "w"); f.write("")
Released(c) == <<>>

ReleaseDevice(c) ==
    /\ ctrl[c].pc = "release"
    /\ lockfiles' = [lockfiles EXCEPT ![ctrl[c].device] = Released(@)]
    /\ ctrl' = [ctrl EXCEPT ![c] = [@ EXCEPT !.pc = "cleanup"]]
    /\ UNCHANGED <<terminal, lvars, mvars, rvars, xvars>>

\* ... remote_execute(device["bb_ip"], <kill aft>): returns, or raises
\* CalledProcessError, which takes the place of the exception in flight.
Cleanup(c) ==
    /\ ctrl[c].pc = "cleanup"
    /\ \E ok \in BOOLEAN :
         ctrl' = [ctrl EXCEPT ![c] =
                    [@ EXCEPT !.pc = "handler",
                              !.remote = @ + 1,
                              !.exc = IF ok THEN @ ELSE "CalledProcessError"]]
    /\ UNCHANGED <<lockfiles, terminal, lvars, mvars, rvars, xvars>>

\* A handler that blacklists whatever the options say.
BlacklistsAlways(e, nb) == e = "FlashImageError"

\* The FlashImageError handler blacklists unless --no-black-listing.
Blacklists(e, nb) == e = "FlashImageError" /\ ~nb

\* How execute ends for each exception.
ExitOf(e, nb) ==
    CASE e = "none" -> "0"
      [] e = "KeyboardInterrupt" -> "0"
      [] e = "ImageNameError" -> "7"
      [] e = "FlashImageError" -> IF nb THEN "None" ELSE "FlashImageError"
      [] OTHER -> e

\* The except clauses of execute; open(lockfile, "a") appends the blacklist
\* line to what the file holds.
Handler(c) ==
    /\ ctrl[c].pc = "handler"
    /\ lockfiles' = IF Blacklists(ctrl[c].exc, ctrl[c].no_black_listing)
                      THEN [lockfiles EXCEPT ![ctrl[c].device] = Append(@, BLACKLISTED)]
                      ELSE lockfiles
    /\ terminal' = IF ctrl[c].flash_failed /\ ~ctrl[c].no_black_listing
                     THEN terminal \cup {ctrl[c].device} ELSE terminal
    /\ ctrl' = [ctrl EXCEPT ![c] =
                  [Idle EXCEPT !.pc = "done", !.device = ctrl[c].device,
                               !.exc = ctrl[c].exc,
                               !.flash_failed = ctrl[c].flash_failed,
                               !.no_black_listing = ctrl[c].no_black_listing,
                               !.result = ExitOf(ctrl[c].exc, ctrl[c].no_black_listing)]]
    /\ UNCHANGED <<lvars, mvars, rvars, xvars>>

\* The exit status of the process: sys.exit(n) exits with n,
\* sys.exit(None) with 0, and an exception that leaves main with 1.
ExitStatus(r) ==
    CASE r = "0" -> 0
      [] r = "5" -> 5
      [] r = "6" -> 6
      [] r = "7" -> 7
      [] r = "None" -> 0
      [] OTHER -> 1

\* sys.exit(main_return_code): the run is over.
Finish(c) ==
    /\ ctrl[c].pc = "done"
    /\ ctrl' = [ctrl EXCEPT ![c] = Idle]
    /\ UNCHANGED <<lockfiles, terminal, lvars, mvars, rvars, xvars>>

FleetNext ==
    \E c \in Ctrls :
       \/ FleetReserve(c)
       \/ FleetOpen(c)
       \/ FleetJudge(c)
       \/ FleetSweepEnd(c)
       \/ FlashCycle(c)
       \/ ReleaseDevice(c)
       \/ Cleanup(c)
       \/ Handler(c)
       \/ Finish(c)

(***************************************************************************)
(* Remote command execution: daft remote_execute / local_execute           *)
(***************************************************************************)

\* Return codes of the ssh process: success, a failure of the remote
\* command, a remote command that was not found, a failure of ssh itself.
ReturnCodes == {0, 1, 127, 255}

\* No remote_execute call is running.
NoCall ==
    [pc |-> "idle",
     ignore |-> {},      \* ignore_return_codes
     i |-> 0,            \* the loop variable
     calls |-> 0,        \* local_execute invocations
     ended |-> FALSE,    \* the last invocation's process ended in time
     rc |-> 0,           \* its return code, if it ended
     refused |-> FALSE,  \* "Connection refused" is in its output
     paused |-> 0,       \* seconds slept between invocations
     hist |-> <<>>,      \* how each invocation ended
     out |-> 0,          \* the invocation whose output was returned, 0 = none
     err |-> "none"]     \* the exception raised to the caller

RInit == rx = NoCall

\* remote_execute(remote_ip, command, timeout, ignore_return_codes, ...)
RemoteExecute ==
    /\ rx.pc = "idle"
    /\ \E ign \in SUBSET (ReturnCodes \ {0}) :
         rx' = [NoCall EXCEPT !.pc = "for", !.ignore = ign, !.i = 1]
    /\ UNCHANGED <<lvars, mvars, fvars, xvars>>

\* local_execute: TimeoutExpired when the time ran out before the process
\* ended, the output when the return code is 0 or ignored,
\* CalledProcessError otherwise.
LocalExecute(ended, rc, ign) ==
    IF ~ended THEN "TimeoutExpired"
    ELSE IF rc \in ign \/ rc = 0 THEN "output"
    ELSE "CalledProcessError"

\* A handler that tries again after any failed command.
RetriesAnyFailure(refused, k) == k < CONNECTION_RETRIES

\* if "Connection refused" in err.output and i < connection_retries:
RetriesRefused(refused, k) == refused /\ k < CONNECTION_RETRIES

\* How an invocation ended, as the caller of local_execute can tell.
Ending(res, refused) ==
    CASE res = "output" -> "output"
      [] res = "TimeoutExpired" -> "timeout"
      [] refused -> "refused"
      [] OTHER -> "failed"

\* One iteration of `for i in range(1, connection_retries + 1)`: the
\* command is invoked; its output is returned, or its CalledProcessError is
\* handled, or its TimeoutExpired leaves remote_execute as it is.
Invoke ==
    /\ rx.pc = "for"
    /\ rx.i \in 1..CONNECTION_RETRIES
    /\ \E ended \in BOOLEAN, rc \in ReturnCodes, refused \in BOOLEAN :
         LET res == LocalExecute(ended, rc, rx.ignore)
             now == [rx EXCEPT !.calls = @ + 1, !.ended = ended,
                               !.rc = IF ended THEN rc ELSE 0,
                               !.refused = refused,
                               !.hist = Append(@, Ending(res, refused))]
         IN rx' = CASE res = "output" ->
                         [now EXCEPT !.pc = "returned", !.out = rx.calls + 1]
                    [] res = "TimeoutExpired" ->
                         [now EXCEPT !.pc = "raised", !.err = res]
                    [] OTHER ->
                         IF RetriesRefused(refused, rx.i)
                           THEN [now EXCEPT !.pc = "pause"]
                           ELSE [now EXCEPT !.pc = "raised", !.err = res]
    /\ UNCHANGED <<lvars, mvars, fvars, xvars>>

\* time.sleep(2); continue
Pause ==
    /\ rx.pc = "pause"
    /\ rx' = [rx EXCEPT !.pc = "for", !.i = @ + 1,
                        !.paused = @ + CONNECTION_PAUSE]
    /\ UNCHANGED <<lvars, mvars, fvars, xvars>>

\* The caller has the output or the exception.
Done ==
    /\ rx.pc \in {"returned", "raised"}
    /\ rx' = NoCall
    /\ UNCHANGED <<lvars, mvars, fvars, xvars>>

RemoteNext ==
    \/ RemoteExecute
    \/ Invoke
    \/ Pause
    \/ Done

(***************************************************************************)
(* IP polling: aft/devices/common.py, wait_for_responsive_ip_for_pc_device  *)
(* and get_ip_for_pc_device.  Every poll the environment decides which     *)
(* addresses dnsmasq has leased and which of them accept an ssh session.   *)
(***************************************************************************)

Ips == {"192.168.30.2", "192.168.30.3"}

\* The leases file: no lease, one, or two in either order.
LeaseLists ==
    {<<>>} \cup {<<a>> : a \in Ips}
           \cup {ab \in Ips \X Ips : ab[1] # ab[2]}

\* The calls the model tries: short timeouts and intervals, and the
\* defaults of PCDevice.
PollTimeouts == (0..MaxBootTimeout) \cup {BOOT_TIMEOUT}
PollIntervals == (1..MaxPollingInterval) \cup {POLLING_INTERVAL}

NoPoll ==
    [pc |-> "idle",
     timeout |-> 0,
     polling_interval |-> 1,
     polls |-> 0,               \* calls of get_ip_for_pc_device
     failed |-> 0,              \* polls in which no tried address accepted
     slept |-> 0,               \* time.sleep(polling_interval) calls
     leases |-> <<>>,           \* the leases file at the last poll
     accepting |-> {},          \* the addresses accepting ssh at the last poll
     result |-> "none"]

PInit == poll = NoPoll

\* wait_for_responsive_ip_for_pc_device(leases_file_path, timeout, polling_interval)
WaitForResponsiveIpForPcDevice ==
    /\ poll.pc = "idle"
    /\ \E t \in PollTimeouts, i \in PollIntervals :
         poll' = [NoPoll EXCEPT !.pc = "range", !.timeout = t, !.polling_interval = i]
    /\ UNCHANGED <<lvars, mvars, fvars, rvars, ivars, wvars, nvars>>

\* range(timeout // polling_interval)
PollRange(t, i) == t \div i

\* "If the testing setup has only one device return the first leases ip":
\* [leases[0]["ip"]] or [].
GetLeasedIpAddressesForMac(leases) ==
    IF Len(leases) > 0 THEN <<leases[1]>> ELSE <<>>

RECURSIVE FirstAccepting(_, _)
\* for ip_address in ip_addresses: if ssh.test_ssh_connectivity(ip_address):
\* return ip_address; return None
FirstAccepting(ips, accepting) ==
    IF ips = <<>> THEN "None"
    ELSE IF Head(ips) \in accepting THEN Head(ips)
    ELSE FirstAccepting(Tail(ips), accepting)

\* A lookup that takes the leased address for responsive without trying it.
GetIpUntried(leases, accepting) ==
    IF Len(leases) > 0 THEN leases[1] ELSE "None"

\* get_ip_for_pc_device
GetIpForPcDevice(leases, accepting) ==
    FirstAccepting(GetLeasedIpAddressesForMac(leases), accepting)

\* One turn of the for loop up to the sleep or the return, or the loop is
\* exhausted and the function falls off its end, returning None.
PollOnce ==
    /\ poll.pc = "range"
    /\ \E ls \in LeaseLists, acc \in SUBSET Ips :
         LET responsive_ip == GetIpForPcDevice(ls, acc) IN
           poll' = IF poll.polls < PollRange(poll.timeout, poll.polling_interval)
                     THEN IF responsive_ip = "None"
                            THEN [poll EXCEPT !.pc = "sleep", !.polls = @ + 1,
                                              !.failed = @ + 1,
                                              !.leases = ls, !.accepting = acc]
                            ELSE [poll EXCEPT !.pc = "returned", !.polls = @ + 1,
                                              !.leases = ls, !.accepting = acc,
                                              !.result = responsive_ip]
                     ELSE [poll EXCEPT !.pc = "returned", !.result = "None"]
    /\ UNCHANGED <<lvars, mvars, fvars, rvars, ivars, wvars, nvars>>

\* test_ssh_connectivity catches CalledProcessError only: the TimeoutExpired
\* of local_execute leaves the poll and the function.
PollRaises ==
    /\ poll.pc = "range"
    /\ poll.polls < PollRange(poll.timeout, poll.polling_interval)
    /\ \E ls \in LeaseLists \ {<<>>} :
         poll' = [poll EXCEPT !.pc = "raised", !.polls = @ + 1, !.leases = ls,
                              !.accepting = {}, !.result = "TimeoutExpired"]
    /\ UNCHANGED <<lvars, mvars, fvars, rvars, ivars, wvars, nvars>>

\* time.sleep(polling_interval); continue
PollSleep ==
    /\ poll.pc = "sleep"
    /\ poll' = [poll EXCEPT !.pc = "range", !.slept = @ + 1]
    /\ UNCHANGED <<lvars, mvars, fvars, rvars, ivars, wvars, nvars>>

\* The caller has the address, None or the exception.
PollLeave ==
    /\ poll.pc \in {"returned", "raised"}
    /\ poll' = NoPoll
    /\ UNCHANGED <<lvars, mvars, fvars, rvars, ivars, wvars, nvars>>

PollNext ==
    \/ WaitForResponsiveIpForPcDevice
    \/ PollOnce
    \/ PollRaises
    \/ PollSleep
    \/ PollLeave

(***************************************************************************)
(* Credential injection: PCDevice._install_tester_public_key and the       *)
(* mount helpers.  Every step is one ssh.remote_execute, which returns or  *)
(* raises CalledProcessError or TimeoutExpired.                            *)
(***************************************************************************)

NoInstall ==
    [pc |-> "idle",
     uses_hddimg |-> FALSE,    \* self._uses_hddimg: a two-layer image
     layout |-> FALSE,         \* the disk layout file of the image exists
     partitions |-> 0,         \* partitions of the target device lsblk lists
     partition |-> 0,          \* partitions find_root_partition has probed
     has_root |-> FALSE,       \* "root" in files, for the probed partition
     mounts |-> {},            \* mount points mounted on the device now
     mounted |-> FALSE,        \* the root partition was mounted for the injection
     umounts |-> {},           \* mount points whose umount was executed after that
     primary |-> "none",       \* the write to authorized_keys and its chmod
     fallback |-> "none",      \* the write to the dropbear file
     exc |-> "none"]

IInit == inst = NoInstall

\* _install_tester_public_key(image_file_name): _mount_two_layers for a
\* .hddimg, else _mount_single_layer, whose get_root_partition_path reads the
\* layout file or calls find_root_partition.
InstallTesterPublicKey ==
    /\ inst.pc = "idle"
    /\ \E h \in BOOLEAN, l \in BOOLEAN, n \in 0..MaxPartitions :
         inst' = [NoInstall EXCEPT !.pc = IF h THEN "modprobe"
                                          ELSE IF l THEN "mount_root" ELSE "lsblk",
                                   !.uses_hddimg = h, !.layout = l,
                                   !.partitions = n]
    /\ UNCHANGED <<lvars, mvars, fvars, rvars, pvars, wvars, nvars>>

\* The commands that change no mount, and the step that follows each:
\* modprobe vfat; lsblk; cat etc/passwd; mkdir -p; chmod 700; sync.
PlainSteps ==
    [modprobe |-> "mount_super", lsblk |-> "probe", passwd |-> "mkdir",
     mkdir |-> "chmod700", chmod700 |-> "primary", sync |-> "umount_root"]

PlainCommand ==
    /\ inst.pc \in DOMAIN PlainSteps
    /\ inst' = [inst EXCEPT !.pc = PlainSteps[inst.pc]]
    /\ UNCHANGED <<lvars, mvars, fvars, rvars, pvars, wvars, nvars>>

\* find_root_partition: for partition in partitions: ...;
\* raise AFTDeviceError("Couldn't find root partition")
ProbeLoop ==
    /\ inst.pc = "probe"
    /\ inst' = IF inst.partition < inst.partitions
                 THEN [inst EXCEPT !.pc = "probe_mount", !.partition = @ + 1]
                 ELSE [inst EXCEPT !.pc = "raised", !.exc = "AFTDeviceError"]
    /\ UNCHANGED <<lvars, mvars, fvars, rvars, pvars, wvars, nvars>>

\* mount /dev/<partition> _ROOT_PARTITION_MOUNT_POINT
ProbeMount ==
    /\ inst.pc = "probe_mount"
    /\ inst' = [inst EXCEPT !.pc = "probe_ls", !.mounts = @ \cup {"root"}]
    /\ UNCHANGED <<lvars, mvars, fvars, rvars, pvars, wvars, nvars>>

\* ls of the mount point and of home/ under it
ProbeLs ==
    /\ inst.pc = "probe_ls"
    /\ \E r \in BOOLEAN :
         inst' = [inst EXCEPT !.pc = "probe_umount", !.has_root = r]
    /\ UNCHANGED <<lvars, mvars, fvars, rvars, pvars, wvars, nvars>>

\* umount _ROOT_PARTITION_MOUNT_POINT; if "root" in files: return partition_path
ProbeUmount ==
    /\ inst.pc = "probe_umount"
    /\ inst' = [inst EXCEPT !.pc = IF inst.has_root THEN "mount_root" ELSE "probe",
                            !.mounts = @ \ {"root"}]
    /\ UNCHANGED <<lvars, mvars, fvars, rvars, pvars, wvars, nvars>>

\* mount self._target_device _SUPER_ROOT_MOUNT_POINT
MountSuper ==
    /\ inst.pc = "mount_super"
    /\ inst' = [inst EXCEPT !.pc = "mount_root", !.mounts = @ \cup {"super"}]
    /\ UNCHANGED <<lvars, mvars, fvars, rvars, pvars, wvars, nvars>>

\* mount <root partition or rootfs.img> _ROOT_PARTITION_MOUNT_POINT
MountRoot ==
    /\ inst.pc = "mount_root"
    /\ inst' = [inst EXCEPT !.pc = "passwd", !.mounts = @ \cup {"root"},
                            !.mounted = TRUE]
    /\ UNCHANGED <<lvars, mvars, fvars, rvars, pvars, wvars, nvars>>

\* try: cat ~/.ssh/authorized_keys >> authorized_keys_path; chmod 600.
\* except Exception: the dropbear file is tried instead.
PrimaryWrite ==
    /\ inst.pc \in {"primary", "chmod600"}
    /\ \E ok \in BOOLEAN :
         inst' = IF ok
                   THEN IF inst.pc = "primary"
                          THEN [inst EXCEPT !.pc = "chmod600"]
                          ELSE [inst EXCEPT !.pc = "sync", !.primary = "written"]
                   ELSE [inst EXCEPT !.pc = "fallback", !.primary = "failed"]
    /\ UNCHANGED <<lvars, mvars, fvars, rvars, pvars, wvars, nvars>>

\* cat ~/.ssh/authorized_keys >> var/lib/dropbear/authorized_keys, inside
\* the except block: its error leaves the function.
FallbackWrite ==
    /\ inst.pc = "fallback"
    /\ \E ok \in BOOLEAN :
         inst' = IF ok
                   THEN [inst EXCEPT !.pc = "sync", !.fallback = "written"]
                   ELSE [inst EXCEPT !.pc = "raised", !.fallback = "failed",
                                     !.exc = "CalledProcessError"]
    /\ UNCHANGED <<lvars, mvars, fvars, rvars, pvars, wvars, nvars>>

\* umount _ROOT_PARTITION_MOUNT_POINT; if self._uses_hddimg: the next umount.
UmountRoot ==
    /\ inst.pc = "umount_root"
    /\ inst' = [inst EXCEPT !.pc = IF inst.uses_hddimg THEN "umount_super"
                                                       ELSE "returned",
                            !.mounts = @ \ {"root"}, !.umounts = @ \cup {"root"}]
    /\ UNCHANGED <<lvars, mvars, fvars, rvars, pvars, wvars, nvars>>

\* umount _SUPER_ROOT_MOUNT_POINT
UmountSuper ==
    /\ inst.pc = "umount_super"
    /\ inst' = [inst EXCEPT !.pc = "returned",
                            !.mounts = @ \ {"super"}, !.umounts = @ \cup {"super"}]
    /\ UNCHANGED <<lvars, mvars, fvars, rvars, pvars, wvars, nvars>>

\* The steps outside the try block that run a remote command.
RemoteSteps ==
    {"modprobe", "lsblk", "probe_mount", "probe_ls", "probe_umount",
     "mount_super", "mount_root", "passwd", "mkdir", "chmod700", "sync",
     "umount_root", "umount_super"}

\* ssh.remote_execute raises: nothing in _install_tester_public_key or the
\* mount helpers catches it, the function is left with the mounts as they
\* are.  A failing umount was executed but unmounted nothing.
CommandFails ==
    /\ inst.pc \in RemoteSteps
    /\ inst' = [inst EXCEPT !.pc = "raised", !.exc = "CalledProcessError",
                            !.umounts = IF inst.pc = "umount_root" THEN @ \cup {"root"}
                                        ELSE IF inst.pc = "umount_super" THEN @ \cup {"super"}
                                        ELSE @]
    /\ UNCHANGED <<lvars, mvars, fvars, rvars, pvars, wvars, nvars>>

\* write_image returns or passes the exception on to _flash.
InstallLeave ==
    /\ inst.pc \in {"returned", "raised"}
    /\ inst' = NoInstall
    /\ UNCHANGED <<lvars, mvars, fvars, rvars, pvars, wvars, nvars>>

InstallNext ==
    \/ InstallTesterPublicKey
    \/ PlainCommand
    \/ ProbeLoop
    \/ ProbeMount
    \/ ProbeLs
    \/ ProbeUmount
    \/ MountSuper
    \/ MountRoot
    \/ PrimaryWrite
    \/ FallbackWrite
    \/ UmountRoot
    \/ UmountSuper
    \/ CommandFails
    \/ InstallLeave

(***************************************************************************)
(* One flash call: DevicesManager._flash and the PCDevice.write_image calls *)
(* it makes, each with the retry loop of _enter_mode inside.               *)
(***************************************************************************)

\* write_image: _enter_mode("service_mode", ...), then in _flash_image the
\* bmaptool copy and the partprobe/sync/udevadm settle, then
\* _install_tester_public_key.
WriteSequence == <<"service_mode", "copy", "settle", "inject">>

NoFlash ==
    [pc |-> "idle",
     flash_retries |-> 0,   \* args.flash_retries
     flash_attempt |-> 0,
     em_attempt |-> 0,      \* iterations of _enter_mode's loop in this write_image
     power_cycles |-> 0,    \* _power_cycle invocations of this flash call
     steps |-> <<>>,        \* the steps this write_image call has begun
     prev |-> 0,            \* how many steps the previous attempt had begun
     result |-> "none"]

WInit == wr = NoFlash

\* try_flash_device -> _flash(args, device)
FlashCall ==
    /\ wr.pc = "idle"
    /\ \E r \in 0..MaxRetries :
         wr' = [NoFlash EXCEPT !.pc = "while", !.flash_retries = r]
    /\ UNCHANGED <<lvars, mvars, fvars, rvars, pvars, ivars, nvars>>

\* A write_image that takes up the write where a service system is already
\* running.
WriteImageResumes == "copy"

\* device.write_image(args.file_name) begins with _enter_mode.
WriteImageStart == "enter"

\* while flash_attempt < flash_retries: flash_attempt += 1;
\* device.write_image(...).  Falling out of the loop returns None.
FlashWhile ==
    /\ wr.pc = "while"
    /\ wr' = IF FlashLoopCond(wr.flash_attempt, wr.flash_retries)
               THEN [wr EXCEPT !.pc = WriteImageStart, !.flash_attempt = @ + 1,
                               !.steps = <<>>, !.em_attempt = 0]
               ELSE [wr EXCEPT !.pc = "returned", !.result = "None"]
    /\ UNCHANGED <<lvars, mvars, fvars, rvars, pvars, ivars, nvars>>

\* self._enter_mode("service_mode", self._boot_usb_keystrokes)
WriteEnterMode ==
    /\ wr.pc = "enter"
    /\ wr' = [wr EXCEPT !.pc = "for", !.steps = Append(@, "service_mode"),
                        !.em_attempt = 0]
    /\ UNCHANGED <<lvars, mvars, fvars, rvars, pvars, ivars, nvars>>

\* for _ in range(self._RETRY_ATTEMPTS): ...; raise AFTDeviceError
WriteFor ==
    /\ wr.pc = "for"
    /\ wr' = IF RetryRange(wr.em_attempt)
               THEN [wr EXCEPT !.pc = "relay", !.em_attempt = @ + 1]
               ELSE [wr EXCEPT !.pc = "except"]
    /\ UNCHANGED <<lvars, mvars, fvars, rvars, pvars, ivars, nvars>>

\* self._set_boot_relay(target): the pin is written, or the write raises and
\* the bare except of _enter_mode goes on to the next attempt.
WriteRelay ==
    /\ wr.pc = "relay"
    /\ \E ok \in BOOLEAN :
         wr' = [wr EXCEPT !.pc = IF ok THEN "cycle" ELSE "for"]
    /\ UNCHANGED <<lvars, mvars, fvars, rvars, pvars, ivars, nvars>>

\* self._power_cycle() and the rest of the attempt: the device came up in
\* service mode, or the attempt failed.
WritePowerCycle ==
    /\ wr.pc = "cycle"
    /\ \E ok \in BOOLEAN :
         wr' = [wr EXCEPT !.pc = IF ok THEN "copy" ELSE "for",
                          !.power_cycles = @ + 1]
    /\ UNCHANGED <<lvars, mvars, fvars, rvars, pvars, ivars, nvars>>

\* The step that follows each step of write_image after the mode entry.
AfterStep == [copy |-> "settle", settle |-> "inject", inject |-> "returned"]

\* _flash_image (mount and bmaptool copy; partprobe, sync, udevadm) and
\* _install_tester_public_key: the step returns, or raises out of
\* write_image.  After the last step _flash returns the device.
WriteStep ==
    /\ wr.pc \in DOMAIN AfterStep
    /\ \E ok \in BOOLEAN :
         wr' = IF ok
                 THEN [wr EXCEPT !.pc = AfterStep[wr.pc], !.steps = Append(@, wr.pc),
                                 !.result = IF wr.pc = "inject" THEN "device" ELSE @]
                 ELSE [wr EXCEPT !.pc = "except", !.steps = Append(@, wr.pc)]
    /\ UNCHANGED <<lvars, mvars, fvars, rvars, pvars, ivars, nvars>>

\* except Exception: on the last attempt release and re-raise, else go round.
FlashExcept ==
    /\ wr.pc = "except"
    /\ wr' = IF LastAttempt(wr.flash_attempt, wr.flash_retries)
               THEN [wr EXCEPT !.pc = "raised", !.prev = Len(wr.steps),
                               !.result = "Exception"]
               ELSE [wr EXCEPT !.pc = "while", !.prev = Len(wr.steps)]
    /\ UNCHANGED <<lvars, mvars, fvars, rvars, pvars, ivars, nvars>>

\* except KeyboardInterrupt: raise, in _enter_mode and in _flash.
FlashInterrupt ==
    /\ wr.pc \in {"enter", "for", "relay", "cycle", "copy", "settle", "inject"}
    /\ wr' = [wr EXCEPT !.pc = "interrupted", !.result = "KeyboardInterrupt"]
    /\ UNCHANGED <<lvars, mvars, fvars, rvars, pvars, ivars, nvars>>

\* The caller of _flash goes on.
FlashLeave ==
    /\ wr.pc \in {"returned", "raised", "interrupted"}
    /\ wr' = NoFlash
    /\ UNCHANGED <<lvars, mvars, fvars, rvars, pvars, ivars, nvars>>

WriteNext ==
    \/ FlashCall
    \/ FlashWhile
    \/ WriteEnterMode
    \/ WriteFor
    \/ WriteRelay
    \/ WritePowerCycle
    \/ WriteStep
    \/ FlashExcept
    \/ FlashInterrupt
    \/ FlashLeave

(***************************************************************************)
(* The single-tier main: aft/main.py main and main_logic, the class-level   *)
(* THREADS and FLAGS of ThreadHandler, and the serial recorder threads.     *)
(* THREADS and FLAGS outlive a call of main ("library-like use").           *)
(***************************************************************************)

NoMain ==
    [pc |-> "idle",
     record |-> FALSE,     \* args.record
     threads |-> <<>>,     \* ThreadHandler.THREADS
     alive |-> {},         \* the recorder threads still running
     flag |-> FALSE,       \* ThreadHandler.FLAGS.get(RECORDERS_STOP)
     flag_set |-> FALSE,   \* this call of main has set the flag
     raised |-> "none",    \* what main_logic raised
     idx |-> 0,            \* threads the for loop of the finally has taken
     wait |-> 0,           \* seconds the current join has waited
     joined |-> <<>>,      \* threads whose join has returned, in order
     timed_out |-> {},     \* threads whose join returned on its timeout
     exit |-> "none"]

NInit == mn = NoMain

\* main(): try: main_logic().  At most MaxRecorders threads get registered.
Main ==
    /\ mn.pc = "idle"
    /\ \E rec \in IF Len(mn.threads) < MaxRecorders THEN BOOLEAN ELSE {FALSE} :
         mn' = [mn EXCEPT !.pc = "parse", !.record = rec]
    /\ UNCHANGED <<lvars, mvars, fvars, rvars, pvars, ivars, wvars>>

\* main_logic: config.parse and parse_args; DevicesManager(args) and the
\* with statement; prepare_device, which starts the recorder; the rest of
\* the body, after which main returns SUCCESS_EXIT_CODE.
NextPhase == [parse |-> "with", with |-> "record", record |-> "body", body |-> "return"]

\* A main whose finally clause is an except clause: an error passes it by.
AfterLogicSkips(e) == IF e = "Exception" THEN "exited" ELSE "set_flag"

\* finally: runs however the try block and the except clauses are left.
AfterLogic(e) == "set_flag"

\* recorder.start(); ThreadHandler.add_thread(recorder), if args.record.
RecordSerial(m) ==
    IF m.pc = "record" /\ m.record
      THEN [m EXCEPT !.threads = Append(@, Len(@) + 1),
                     !.alive = @ \cup {Len(m.threads) + 1}]
      ELSE m

MainLogic ==
    /\ mn.pc \in DOMAIN NextPhase
    /\ mn' = [RecordSerial(mn) EXCEPT
                !.pc = IF NextPhase[mn.pc] = "return" THEN AfterLogic("none")
                                                      ELSE NextPhase[mn.pc]]
    /\ UNCHANGED <<lvars, mvars, fvars, rvars, pvars, ivars, wvars>>

\* What leaves main_logic: an error, a user interrupt, and the SystemExit of
\* argparse.
Raisable(ph) ==
    {"Exception", "KeyboardInterrupt"} \cup (IF ph = "parse" THEN {"SystemExit"} ELSE {})

\* except KeyboardInterrupt: return SUCCESS_EXIT_CODE;
\* except Exception: logger.error; raise.  SystemExit meets no except clause.
MainLogicRaises ==
    /\ mn.pc \in DOMAIN NextPhase
    /\ \E e \in Raisable(mn.pc) :
         mn' = [mn EXCEPT !.pc = AfterLogic(e), !.raised = e]
    /\ UNCHANGED <<lvars, mvars, fvars, rvars, pvars, ivars, wvars>>

\* ThreadHandler.set_flag(ThreadHandler.RECORDERS_STOP)
SetFlag ==
    /\ mn.pc = "set_flag"
    /\ mn' = [mn EXCEPT !.pc = "for", !.flag = TRUE, !.flag_set = TRUE]
    /\ UNCHANGED <<lvars, mvars, fvars, rvars, pvars, ivars, wvars>>

\* What main does after the finally clause.
ExitOfMain(e) ==
    CASE e = "none" -> "0"
      [] e = "KeyboardInterrupt" -> "0"
      [] e = "Exception" -> "raise"
      [] OTHER -> "SystemExit"

\* for thread in ThreadHandler.get_threads():
JoinFor ==
    /\ mn.pc = "for"
    /\ mn' = IF mn.idx < Len(mn.threads)
               THEN [mn EXCEPT !.pc = "join", !.idx = @ + 1, !.wait = 0]
               ELSE [mn EXCEPT !.pc = "exited", !.exit = ExitOfMain(mn.raised)]
    /\ UNCHANGED <<lvars, mvars, fvars, rvars, pvars, ivars, wvars>>

\* thread.join(5) returns: the thread has ended, or the 5 seconds are over.
Join ==
    /\ mn.pc = "join"
    /\ mn.threads[mn.idx] \notin mn.alive \/ mn.wait = JOIN_TIMEOUT
    /\ mn' = [mn EXCEPT !.pc = "for", !.joined = Append(@, mn.threads[mn.idx]),
                        !.timed_out = IF mn.threads[mn.idx] \in mn.alive
                                        THEN @ \cup {mn.threads[mn.idx]} ELSE @]
    /\ UNCHANGED <<lvars, mvars, fvars, rvars, pvars, ivars, wvars>>

\* A second of the join passes with the thread still running.
JoinTick ==
    /\ mn.pc = "join"
    /\ mn.threads[mn.idx] \in mn.alive
    /\ mn.wait < JOIN_TIMEOUT
    /\ mn' = [mn EXCEPT !.wait = @ + 1]
    /\ UNCHANGED <<lvars, mvars, fvars, rvars, pvars, ivars, wvars>>

\* record(): if ThreadHandler.get_flag(RECORDERS_STOP): ... return
RecorderStops ==
    /\ mn.flag
    /\ \E t \in mn.alive : mn' = [mn EXCEPT !.alive = @ \ {t}]
    /\ UNCHANGED <<lvars, mvars, fvars, rvars, pvars, ivars, wvars>>

\* The recorder thread ends on an exception record() does not catch.
RecorderDies ==
    /\ ~mn.flag
    /\ \E t \in mn.alive : mn' = [mn EXCEPT !.alive = @ \ {t}]
    /\ UNCHANGED <<lvars, mvars, fvars, rvars, pvars, ivars, wvars>>

\* main has returned or raised; THREADS and FLAGS stay as they are.
MainLeave ==
    /\ mn.pc = "exited"
    /\ mn' = [NoMain EXCEPT !.threads = mn.threads, !.alive = mn.alive,
                            !.flag = mn.flag]
    /\ UNCHANGED <<lvars, mvars, fvars, rvars, pvars, ivars, wvars>>

MainNext ==
    \/ Main
    \/ MainLogic
    \/ MainLogicRaises
    \/ SetFlag
    \/ JoinFor
    \/ Join
    \/ JoinTick
    \/ RecorderStops
    \/ RecorderDies
    \/ MainLeave


(***************************************************************************)
(* Specifications                                                          *)
(***************************************************************************)

Init == LInit /\ MInit /\ FInit /\ RInit /\ PInit /\ IInit /\ WInit /\ NInit

Spec == Init /\ [][Next]_vars

ModeSpec == Init /\ [][ModeNext]_vars

FleetSpec == Init /\ [][FleetNext]_vars

RemoteSpec == Init /\ [][RemoteNext]_vars

PollSpec == Init /\ [][PollNext]_vars

InstallSpec == Init /\ [][InstallNext]_vars

WriteSpec == Init /\ [][WriteNext]_vars

MainSpec == Init /\ [][MainNext]_vars

(***************************************************************************)
(* Properties of the host-local tier                                       *)
(***************************************************************************)

\* p holds a reservation: a device returned by _do_reserve whose lock file p
\* has not closed yet.
Holds(p) == proc[p].device # 0 /\ proc[p].lock_files # <<>>

\* p's kept lock file still holds its flock.
KeepsFlock(p) ==
    /\ proc[p].lock_files # <<>>
    /\ locked[Head(proc[p].lock_files)] = p

\* p has left the body of reserve()'s scope and the finally clause.
LeftScope(p) ==
    \/ proc[p].pc = "out" /\ proc[p].device # 0
    \/ proc[p].relret = "atexit"

\* A _release by a process that has released before: the scope's release
\* that follows the release in _flash, and the atexit release.
SecondRelease(p) ==
    \/ proc[p].relret = "atexit"
    \/ proc[p].relret = "finally" /\ proc[p].flashres \in {"raised", "FileNotFoundError"}

\* C1: host-local mutual exclusion: at no time do two processes both hold a
\* reservation.
MutualExclusion == Cardinality({p \in Procs : Holds(p)}) <= 1

\* C2: a second _release never raises and never removes the lock file that
\* another process currently holds locked.
ReleaseIdempotentHarmless ==
    [][\A p \in Procs :
         (SecondRelease(p) /\ proc[p].pc = "rel_unlink" /\ proc'[p] # proc[p])
           => /\ path # 0
              /\ locked[path] \in {0, p}]_vars

\* C3: once the body of reserve()'s scope has been left after a successful
\* acquisition, whatever the exit path, the process holds no lock file and
\* no flock, so its lock refuses nobody's next sweep.
ScopeReleases ==
    \A p \in Procs :
        LeftScope(p) => /\ proc[p].lock_files = <<>>
                        /\ \A i \in Inodes : locked[i] # p

\* Witness of C3: a process that acquired has left the scope by a user interrupt.
ScopeLeftByInterrupt ==
    \E p \in Procs : /\ proc[p].pc = "out"
                     /\ proc[p].device # 0
                     /\ proc[p].outcome = "KeyboardInterrupt"

\* C6: with maxAttempts = N >= 1 and write_image failing on attempts 1..N-1
\* and succeeding on attempt N, _flash never reaches its exhaustion branch,
\* and when it has returned it returned the device after exactly N
\* write_image invocations with the reservation still held.
FlashRetrySuccess ==
    \A p \in Procs :
        (proc[p].flash_retries >= 1 /\ proc[p].stub = proc[p].flash_retries)
          => /\ proc[p].relret # "flash"
             /\ proc[p].flashres \in {"none", "device", "KeyboardInterrupt"}
             /\ proc[p].pc = "body"
                  => /\ proc[p].flashres = "device"
                     /\ proc[p].writes = proc[p].flash_retries
                     /\ Holds(p)
                     /\ KeepsFlock(p)

\* Witness of C6: _flash has returned the device on the last of MaxRetries attempts.
FlashSucceededOnLast ==
    \E p \in Procs : /\ proc[p].pc = "body"
                     /\ proc[p].flashres = "device"
                     /\ proc[p].flash_retries = MaxRetries
                     /\ proc[p].writes = MaxRetries

\* The attempts and the release on exhaustion: the release in _flash comes
\* only after flash_retries >= 1 write_image invocations, the reservation
\* is held while attempts remain, and it is given up once _flash has raised.
FlashExhaustionReleases ==
    \A p \in Procs :
        /\ proc[p].relret = "flash"
             => proc[p].writes = proc[p].flash_retries /\ proc[p].flash_retries >= 1
        /\ proc[p].pc \in {"flash", "write"} => Holds(p)
        /\ (proc[p].stub = 0 /\ proc[p].pc = "body") => proc[p].flash_retries = 0
        /\ proc[p].flashres \in {"raised", "FileNotFoundError"} => ~Holds(p)

\* C7: with maxAttempts = N >= 1 and write_image always failing, _flash
\* invokes write_image exactly N times, releases only after the N-th failure
\* and then re-raises the error of the N-th attempt, not another error.
FlashRetryExhaustion ==
    /\ FlashExhaustionReleases
    /\ \A p \in Procs : proc[p].flashres # "FileNotFoundError"

\* The steps of _do_reserve.
InDoReserve == {"while", "open", "flock", "sleep"}

\* C10: in model time, where a sweep takes no time, _do_reserve has returned
\* a device or raised AFTTimeoutError no later than timeout + 10 after the call.
BoundedResponse ==
    \A p \in Procs :
        (proc[p].pc \in InDoReserve \/ proc[p].outcome = "AFTTimeoutError")
          => proc[p].elapsed <= proc[p].timeout + SWEEP_INTERVAL

\* Witness of C10: a reservation has timed out later than its timeout.
TimedOutAfterTimeout ==
    \E p \in Procs : /\ proc[p].outcome = "AFTTimeoutError"
                     /\ proc[p].elapsed > proc[p].timeout
                     /\ proc[p].timeout > 0

\* C11: AFTConfigurationError is raised exactly when no configuration
\* matches, before any lock file is opened and before any sleep; a process
\* inside _do_reserve's loop has at least one candidate and no
\* AFTConfigurationError, and a reservation that timed out had candidates.
UnknownSelectorFailsFast ==
    \A p \in Procs :
        /\ proc[p].outcome = "AFTConfigurationError"
             => /\ proc[p].ndev = 0
                /\ proc[p].tries = 0
                /\ proc[p].elapsed = 0
                /\ proc[p].device = 0
                /\ proc[p].lock_files = <<>>
        /\ proc[p].pc \in InDoReserve
             => proc[p].ndev >= 1 /\ proc[p].outcome = "none"
        /\ proc[p].outcome = "AFTTimeoutError" => proc[p].ndev >= 1

\* Witness of C11: one process was refused for an unknown machine while
\* another, whose candidates are all busy, sleeps before its next sweep.
UnknownWhileOtherWaits ==
    \E p, q \in Procs : /\ proc[p].outcome = "AFTConfigurationError"
                        /\ proc[q].pc = "sleep"

\* Sweeps of _do_reserve completed by p, one sleep after each.
Sweeps(p) == proc[p].elapsed \div SWEEP_INTERVAL

\* Every sweep opens the lock file once per candidate, in configuration
\* order, and is followed by one sleep; the loop runs only while the elapsed
\* time is below the timeout, and AFTTimeoutError is raised at the first
\* loop test at which it is not.
SweepOrder ==
    \A p \in Procs :
        /\ proc[p].pc = "while" => proc[p].tries = Sweeps(p) * proc[p].ndev
        /\ proc[p].pc = "open"
             => /\ proc[p].cand \in 1..proc[p].ndev
                /\ proc[p].tries = Sweeps(p) * proc[p].ndev + proc[p].cand - 1
        /\ proc[p].pc = "flock"
             => /\ proc[p].cand \in 1..proc[p].ndev
                /\ proc[p].tries = Sweeps(p) * proc[p].ndev + proc[p].cand
        /\ proc[p].pc = "sleep" => proc[p].tries = (Sweeps(p) + 1) * proc[p].ndev
        /\ proc[p].pc \in {"open", "flock", "sleep"} => proc[p].elapsed < proc[p].timeout
        /\ proc[p].outcome = "AFTTimeoutError"
             => /\ proc[p].elapsed >= proc[p].timeout
                /\ proc[p].elapsed - SWEEP_INTERVAL < proc[p].timeout
                /\ proc[p].tries = Sweeps(p) * proc[p].ndev

\* A granted flock returns the candidate it was tried for and tries no
\* other; a refused one goes on to the next candidate or, after the last,
\* to the sleep.
FirstSuccessWins ==
    \A p \in Procs :
        (proc[p].pc = "flock" /\ proc'[p] # proc[p])
          => IF FlockGranted(proc[p].lockfile)
               THEN /\ proc'[p].pc = "flash"
                    /\ proc'[p].device = proc[p].cand
                    /\ proc'[p].lock_files = <<proc[p].lockfile>>
                    /\ locked'[proc[p].lockfile] = p
               ELSE /\ proc'[p].device = 0
                    /\ proc'[p].lock_files = <<>>
                    /\ IF proc[p].cand < proc[p].ndev
                         THEN proc'[p].pc = "open" /\ proc'[p].cand = proc[p].cand + 1
                         ELSE proc'[p].pc = "sleep"

\* C12: candidates are tried in configuration order with a non-blocking
\* claim, the first granted claim is returned at once, a sweep that finds
\* all busy is followed by a 10 s sleep and another sweep, and
\* AFTTimeoutError is raised once the elapsed time has reached the timeout.
AcquisitionSweep == []SweepOrder /\ [][FirstSuccessWins]_vars

\* Witness of C12: two full sweeps over MaxDevices busy candidates, then the
\* timeout.
SweptTwiceThenTimedOut ==
    \E p \in Procs : /\ proc[p].outcome = "AFTTimeoutError"
                     /\ proc[p].ndev = MaxDevices
                     /\ proc[p].tries = 2 * MaxDevices

\* After a user interrupt in a flash attempt the process is in the release
\* of reserve()'s finally clause and nowhere else: write_image was invoked
\* once per attempt begun and is not invoked again, _flash's own release
\* does not run, and the reservation is still held when that release starts.
FlashInterruptEnds ==
    \A p \in Procs :
        proc[p].flashres = "KeyboardInterrupt"
          => /\ proc[p].pc \in {"rel_close", "rel_isfile", "rel_unlink"}
             /\ proc[p].relret = "finally"
             /\ proc[p].writes = proc[p].flash_attempt
             /\ proc[p].flash_attempt <= proc[p].flash_retries
             /\ proc[p].pc = "rel_close" => Holds(p) /\ KeepsFlock(p)

\* The step in which the interrupt leaves _flash releases nothing.
FlashInterruptKeeps ==
    \A p \in Procs :
        (proc[p].flashres # "KeyboardInterrupt" /\ proc'[p].flashres = "KeyboardInterrupt")
          => /\ proc[p].pc = "write"
             /\ proc'[p].lock_files = proc[p].lock_files
             /\ proc'[p].device = proc[p].device
             /\ proc'[p].flash_attempt = proc[p].flash_attempt
             /\ locked' = locked
             /\ path' = path

\* C18: a user interrupt during a flash attempt leaves _flash at once,
\* whatever attempts remain, and _flash does not release the reservation;
\* the release is that of the enclosing reserve() scope.
FlashInterruptPropagates == []FlashInterruptEnds /\ [][FlashInterruptKeeps]_vars

\* Witness of C18: an interrupt in the first of MaxRetries attempts.
InterruptedWithAttemptsLeft ==
    \E p \in Procs : /\ proc[p].flashres = "KeyboardInterrupt"
                     /\ proc[p].pc = "rel_close"
                     /\ proc[p].flash_attempt = 1
                     /\ proc[p].flash_retries = MaxRetries

(***************************************************************************)
(* Properties of the boot-mode state machine                               *)
(***************************************************************************)

\* C4 as stated: _enter_mode returns after exactly k attempts, which are
\* exactly k power cycles.
ReturnsAfterKPowerCycles ==
    dut.pc = "returned" => /\ dut.ok_attempts = {dut.attempt}
                           /\ dut.power_cycles = dut.attempt

\* C4 as amended: once an attempt k has succeeded, _enter_mode has returned
\* after exactly k attempts, no further attempt or power cycle follows, and
\* at most k power cycles were begun, one in each attempt that got past the
\* boot-relay step.
ReturnsAtFirstSuccess ==
    /\ dut.ok_attempts # {}
         => /\ dut.pc = "returned"
            /\ dut.ok_attempts = {dut.attempt}
            /\ dut.failed = dut.attempt - 1
    /\ dut.pc = "returned"
         => /\ dut.ok_attempts = {dut.attempt}
            /\ dut.power_cycles >= 1
            /\ dut.power_cycles <= dut.attempt

\* Witness of C4: success on the last attempt, after an attempt that failed
\* before its power cycle.
ReturnedOnLastAttempt ==
    /\ dut.pc = "returned"
    /\ dut.attempt = RETRY_ATTEMPTS
    /\ dut.power_cycles < dut.attempt

\* C5: if no attempt succeeds and no user interrupt arrives, _enter_mode
\* makes exactly RETRY_ATTEMPTS attempts and raises AFTDeviceError; it never
\* returns normally and never begins a fifth attempt.
ModeEntryExhaustion ==
    /\ dut.attempt <= RETRY_ATTEMPTS
    /\ dut.pc = "raised" => /\ dut.attempt = RETRY_ATTEMPTS
                            /\ dut.failed = RETRY_ATTEMPTS
                            /\ dut.ok_attempts = {}
    /\ dut.pc = "returned" => dut.failed < dut.attempt
    /\ dut.failed = RETRY_ATTEMPTS => dut.pc \in {"for", "raised"}

\* Witness of C5: AFTDeviceError after four failed attempts at service mode.
RaisedAfterFourAttempts ==
    /\ dut.pc = "raised"
    /\ dut.failed = RETRY_ATTEMPTS
    /\ dut.target = "service_mode"

(***************************************************************************)
(* Properties of the fleet tier                                            *)
(***************************************************************************)

\* Controller c was returned device d by _reserve_device and has not yet
\* run release_device.
FleetHolds(c, d) == ctrl[c].device = d /\ ctrl[c].pc \in {"held", "release"}

\* C13: fleet-tier mutual exclusion: at no time have two controllers both
\* been returned the same device without the other having released it.
FleetMutualExclusion ==
    \A d \in Devices : Cardinality({c \in Ctrls : FleetHolds(c, d)}) <= 1

\* The selector of controller c names no configured device.
UnknownSelector(c) == ctrl[c].dut \cap Devices = {}

\* C14: a _reserve_device whose selector names no configured device opens
\* no lock file and never sleeps, and ends its first sweep with
\* DeviceNameError (exit code 6); DeviceNameError is raised for no other
\* selector, and no device is ever returned for an unknown one.
UnknownSelectorRaises ==
    \A c \in Ctrls :
        /\ (ctrl[c].pc \in {"sweep", "read"} /\ UnknownSelector(c))
             => /\ ctrl[c].pc = "sweep"
                /\ ctrl[c].opened = {}
                /\ ctrl[c].elapsed = 0
                /\ ~ctrl[c].dut_found
        /\ ctrl[c].exc = "DeviceNameError"
             => /\ ctrl[c].pc = "done" /\ ctrl[c].result = "6"
                /\ UnknownSelector(c)
                /\ ctrl[c].opened = {}
                /\ ctrl[c].elapsed = 0
        /\ ctrl[c].pc \in {"held", "release", "cleanup", "handler"}
             => ~UnknownSelector(c)
        /\ ctrl[c].exc = "DevicesBlacklistedError" => ~UnknownSelector(c)

\* Witness of C14: DeviceNameError for one controller while the other holds
\* a device.
UnknownSelectorRefused ==
    \E c, h \in Ctrls : /\ ctrl[c].pc = "done"
                        /\ ctrl[c].exc = "DeviceNameError"
                        /\ ctrl[h].pc = "held"

\* What a sweep has established so far: duts_blacklisted is still set iff no
\* lock read in this sweep held the bare sentinel, no lock read was empty
\* (an empty one ends the sweep), and DevicesBlacklistedError was raised
\* only after every matching candidate was read and found blacklisted.
SweepJudgement ==
    \A c \in Ctrls :
        /\ ctrl[c].pc \in {"sweep", "read"}
             => /\ ctrl[c].duts_blacklisted <=> "reserved" \notin ctrl[c].seen
                /\ "free" \notin ctrl[c].seen
                /\ ctrl[c].dut_found <=> ctrl[c].opened # {}
        /\ ctrl[c].exc = "DevicesBlacklistedError"
             => /\ ctrl[c].pc = "done" /\ ctrl[c].result = "5"
                /\ ctrl[c].opened = ctrl[c].dut \cap Devices
                /\ ctrl[c].opened # {}
                /\ ctrl[c].seen = {"blacklisted"}

\* What a step of the sweep does for each lock content: an empty lock is
\* marked with the sentinel and its device returned; a non-empty one is
\* left as it is; at the end of a sweep over matching candidates that were
\* all blacklisted DevicesBlacklistedError is raised, and if one was
\* reserved the next sweep starts 10 s later with no error.
SweepOutcome ==
    \A c \in Ctrls :
        /\ (ctrl[c].pc = "read" /\ ctrl'[c] # ctrl[c])
             => IF Class(ctrl[c].contents) = "free"
                  THEN /\ ctrl'[c].pc = "held"
                       /\ ctrl'[c].device = ctrl[c].cursor
                       /\ lockfiles'[ctrl[c].cursor] # <<>>
                       /\ Head(lockfiles'[ctrl[c].cursor]) = LOCKED
                  ELSE /\ ctrl'[c].pc = "sweep"
                       /\ ctrl'[c].device = 0
                       /\ lockfiles' = lockfiles
        /\ (ctrl[c].pc = "sweep" /\ ctrl[c].cursor \notin Devices
              /\ ctrl[c].opened # {} /\ ctrl'[c] # ctrl[c])
             => IF "reserved" \in ctrl[c].seen
                  THEN /\ ctrl'[c].pc = "sweep"
                       /\ ctrl'[c].cursor = 1
                       /\ ctrl'[c].exc = "none"
                       /\ ctrl'[c].elapsed = ctrl[c].elapsed + FLEET_SWEEP_INTERVAL
                  ELSE /\ ctrl[c].seen = {"blacklisted"}
                       /\ ctrl'[c].exc = "DevicesBlacklistedError"

\* C15: in one sweep over the matching candidates, an empty lock is reserved
\* and returned, DevicesBlacklistedError is raised exactly when at least one
\* candidate matches and every matching lock is blacklisted, and with none
\* free and at least one reserved the sweep repeats after 10 s.
SweepOutcomeByContent == []SweepJudgement /\ [][SweepOutcome]_vars

\* Witness of C15: a sweep over MaxFleet matching candidates that found
\* them all blacklisted has raised DevicesBlacklistedError.
AllCandidatesBlacklisted ==
    \E c \in Ctrls : /\ ctrl[c].exc = "DevicesBlacklistedError"
                     /\ ctrl[c].opened = Devices
                     /\ \A d \in Devices : IsBlacklisted(lockfiles[d])

\* C19: blacklisted is terminal: no step of any controller turns a
\* blacklisted lock file back into a free or a reserved one.
BlacklistedIsTerminal ==
    [][\A d \in Devices :
         IsBlacklisted(lockfiles[d]) => IsBlacklisted(lockfiles'[d])]_vars

\* The error category a finished run ended with, "none" for a run that
\* ended without one of the four.
Category(c) ==
    CASE ctrl[c].pc # "done" -> "none"
      [] ctrl[c].exc = "DevicesBlacklistedError" -> "DevicesBlacklisted"
      [] ctrl[c].exc = "DeviceNameError" -> "DeviceName"
      [] ctrl[c].flash_failed -> "FlashFailure"
      [] ctrl[c].exc = "ImageNameError" -> "ImageName"
      [] OTHER -> "none"

\* C20: every error category ends the process with a non-zero exit status,
\* and runs that ended with different categories have different statuses.
ExitStatusDistinguishes ==
    /\ \A c \in Ctrls :
         Category(c) # "none" => ExitStatus(ctrl[c].result) # 0
    /\ \A c, e \in Ctrls :
         (Category(c) # "none" /\ Category(e) # "none" /\ Category(c) # Category(e))
           => ExitStatus(ctrl[c].result) # ExitStatus(ctrl[e].result)

\* A user interrupt ends _enter_mode where it arrived: the attempt it
\* arrived in is the last, all earlier attempts had failed, and neither
\* AFTDeviceError nor a normal return follows.
InterruptEnds ==
    /\ dut.interrupted_in # "none"
         => /\ dut.pc = "interrupted"
            /\ dut.interrupted_in \in AttemptSteps
            /\ dut.attempt \in 1..RETRY_ATTEMPTS
            /\ dut.failed = dut.attempt - 1
            /\ dut.ok_attempts = {}
            /\ dut.power_cycles <= dut.attempt
    /\ dut.pc = "interrupted" => dut.interrupted_in # "none"

\* The step that delivers the interrupt begins no attempt and no power
\* cycle, and after it _enter_mode does nothing more.
InterruptStops ==
    /\ (dut.pc # "interrupted" /\ dut'.pc = "interrupted")
         => /\ dut.pc \in AttemptSteps
            /\ dut'.attempt = dut.attempt
            /\ dut'.power_cycles = dut.power_cycles
            /\ dut'.hooks = dut.hooks
            /\ dut'.power = dut.power
    /\ (dut.pc = "interrupted" /\ dut' # dut) => dut' = Off

\* C17: a user interrupt raised in any step of a mode-entry attempt ends
\* _enter_mode at once: no further attempt or power cycle is made and the
\* interrupt, not AFTDeviceError, reaches the caller.
InterruptPropagates == []InterruptEnds /\ [][InterruptStops]_vars

\* Witness of C17: an interrupt in the post-boot hook of the second attempt.
InterruptedInHook ==
    /\ dut.pc = "interrupted"
    /\ dut.interrupted_in = "hooks"
    /\ dut.attempt = 2

\* C24: _enter_mode goes on to its return only from an attempt in which an
\* address answered and the marker check was read and agrees with the
\* target; an attempt whose check could not be executed is no success.
SuccessNeedsReadMarker ==
    dut.pc \in {"hooks", "returned"}
      => /\ dut.ip_address
         /\ dut.marker \in {"present", "absent"}
         /\ dut.marker = "present" <=> dut.target = "service_mode"

\* The order of the steps of one attempt, as the program counter passes
\* through them.
StepOrder ==
    {<<"relay", "detach">>, <<"detach", "settle">>, <<"settle", "attach">>,
     <<"attach", "keys">>, <<"keys", "poll">>, <<"poll", "verify">>,
     <<"verify", "hooks">>}

\* C25: every attempt sets the relay, disconnects, settles, connects, sends
\* the keystrokes iff a keyboard emulator is configured and polls, in that
\* order, and comes to the mode check only with a responsive address.
AttemptStepOrder ==
    /\ [](dut.pc = "verify" => dut.ip_address)
    /\ [][/\ (dut.pc \in AttemptSteps /\ dut'.pc \in AttemptSteps /\ dut'.pc # dut.pc)
               => <<dut.pc, dut'.pc>> \in StepOrder
          /\ (dut.pc = "keys" /\ dut'.pc = "poll")
               => dut'.keys_sent = dut.kb_emulator]_vars

\* C26: the post-boot hooks run at most once in a call of _enter_mode, and
\* not at all in a call that ends with the retries exhausted.
HooksAtMostOnce ==
    /\ dut.hooks <= 1
    /\ dut.pc = "raised" => dut.hooks = 0

(***************************************************************************)
(* Properties of remote command execution                                  *)
(***************************************************************************)

\* C16: remote_execute invokes the command at most CONNECTION_RETRIES times,
\* with a 2 s pause before each re-invocation; every invocation but the
\* last ended in a connection-refused failure; it returns the output of the
\* invocation that succeeded, and raises what the last invocation raised:
\* any other failure at once, a connection-refused one only on the third
\* invocation.
ConnectionRetry ==
    /\ rx.calls = Len(rx.hist)
    /\ rx.calls <= CONNECTION_RETRIES
    /\ \A k \in 1..(Len(rx.hist) - 1) : rx.hist[k] = "refused"
    /\ rx.pc \in {"for", "pause"}
         => \A k \in 1..Len(rx.hist) : rx.hist[k] = "refused"
    /\ rx.pc = "for" => rx.i = rx.calls + 1 /\ rx.i <= CONNECTION_RETRIES
    /\ rx.pc = "for" => rx.paused = CONNECTION_PAUSE * rx.calls
    /\ rx.pc \in {"returned", "raised"}
         => rx.calls >= 1 /\ rx.paused = CONNECTION_PAUSE * (rx.calls - 1)
    /\ rx.pc = "returned"
         => /\ rx.hist[rx.calls] = "output"
            /\ rx.out = rx.calls
            /\ rx.err = "none"
    /\ rx.pc = "raised"
         => /\ rx.out = 0
            /\ rx.hist[rx.calls] \in {"refused", "failed", "timeout"}
            /\ rx.hist[rx.calls] = "refused" => rx.calls = CONNECTION_RETRIES
            /\ rx.err = IF rx.hist[rx.calls] = "timeout"
                          THEN "TimeoutExpired" ELSE "CalledProcessError"

\* Witness of C16: the third consecutive connection-refused failure was
\* raised to the caller after two pauses.
ThirdRefusalRaised ==
    /\ rx.pc = "raised"
    /\ rx.hist = <<"refused", "refused", "refused">>
    /\ rx.paused = 2 * CONNECTION_PAUSE

(***************************************************************************)
(* Properties of the fleet tier, continued                                 *)
(***************************************************************************)

\* The steps of a run whose remote flash failed under --no-black-listing:
\* release_device empties the lock file, and neither the cleanup nor the
\* handlers of execute write to any lock file or record a blacklisting.
OptOutSteps ==
    \A c \in Ctrls :
        (ctrl[c].flash_failed /\ ctrl[c].no_black_listing /\ ctrl'[c] # ctrl[c])
          => /\ ctrl[c].pc = "release" => IsFree(lockfiles'[ctrl[c].device])
             /\ ctrl[c].pc \in {"cleanup", "handler"} => lockfiles' = lockfiles
             /\ ctrl[c].pc = "handler"
                  => /\ ctrl'[c].pc = "done"
                     /\ ctrl'[c].result \in {"None", "CalledProcessError"}

\* C21: when the remote flash fails and the caller passed
\* --no-black-listing, the run writes no blacklist reason and leaves the
\* lock file empty, free for a later sweep.
BlacklistOptOut == [][OptOutSteps]_vars

\* Witness of C21: such a run has ended and the lock file of its device is
\* empty.
OptedOutAndFree ==
    \E c \in Ctrls : /\ ctrl[c].pc = "done"
                     /\ ctrl[c].flash_failed
                     /\ ctrl[c].no_black_listing
                     /\ ctrl[c].result = "None"
                     /\ IsFree(lockfiles[ctrl[c].device])

\* C22: between a terminal flash failure and the blacklisting the lock file
\* is never free: it still holds the reserved sentinel when the reason is
\* appended.
SentinelKeptUntilBlacklisted ==
    \A c \in Ctrls :
        (ctrl[c].pc \in {"release", "cleanup", "handler"}
           /\ Blacklists(ctrl[c].exc, ctrl[c].no_black_listing))
          => /\ ~IsFree(lockfiles[ctrl[c].device])
             /\ Head(lockfiles[ctrl[c].device]) = LOCKED

\* C23: a step that changes a lock file that is not free is taken by the
\* controller holding that reservation, never while another controller
\* holds it.
OnlyHolderWrites ==
    [][\A c \in Ctrls, d \in Devices :
         (ctrl'[c] # ctrl[c] /\ lockfiles'[d] # lockfiles[d] /\ ~IsFree(lockfiles[d]))
           => /\ FleetHolds(c, d)
              /\ \A e \in Ctrls \ {c} : ~FleetHolds(e, d)]_vars

\* C8: once a run whose remote flash failed with blacklisting enabled has
\* finished, the device's lock file is blacklisted and stays so: no later
\* sweep finds it free or merely reserved.
BlacklistPersists ==
    \A d \in terminal : IsBlacklisted(lockfiles[d])

\* C9 for the fleet sweep: whatever timeout T <= MaxTimeout the reservation
\* was given, a sweep over reserved devices has ended by T plus one sweep
\* interval.
FleetSweepTimesOut ==
    \A c \in Ctrls :
       ctrl[c].pc \in {"sweep", "read"}
         => ctrl[c].elapsed <= MaxTimeout + FLEET_SWEEP_INTERVAL

(***************************************************************************)
(* Properties of the IP polling                                             *)
(***************************************************************************)

InjectionAlwaysUnmounts ==
    (inst.pc \in {"returned", "raised"} /\ inst.mounted)
      => /\ "root" \in inst.umounts
         /\ inst.uses_hddimg => "super" \in inst.umounts

(***************************************************************************)
(* Properties of the flash call                                             *)
(***************************************************************************)

\* The steps a write_image call has begun are the first steps of the write
\* sequence, in order; while _enter_mode runs nothing else has begun.
FromFirstStep ==
    /\ Len(wr.steps) <= Len(WriteSequence)
    /\ wr.steps = SubSeq(WriteSequence, 1, Len(wr.steps))
    /\ wr.pc \in {"for", "relay", "cycle"} => wr.steps = <<"service_mode">>
    /\ wr.pc \in {"copy", "settle", "inject"} => wr.steps # <<>>

\* The claim as stated: every attempt begins the write sequence at its first
\* step, and a flash call that has ended made between 1 and
\* flash_retries * RETRY_ATTEMPTS power cycles.
FlashPowerCyclesFromOne ==
    /\ FromFirstStep
    /\ wr.pc \in {"returned", "raised", "interrupted"}
         => /\ 1 <= wr.power_cycles
            /\ wr.power_cycles <= wr.flash_retries * RETRY_ATTEMPTS

\* C29: every flash attempt begins the write sequence at its first step
\* whatever the previous attempt reached, and a flash call that returns the
\* device has run the whole sequence; a flash call makes at most
\* RETRY_ATTEMPTS power cycles per attempt, at least one if it returns the
\* device, and none if every relay write raised or flash_retries is 0.
NoPartialFlashResumption ==
    /\ FromFirstStep
    /\ wr.flash_attempt <= wr.flash_retries
    /\ wr.power_cycles <= wr.flash_attempt * RETRY_ATTEMPTS
    /\ wr.result = "device"
         => wr.steps = WriteSequence /\ wr.power_cycles >= 1 /\ wr.pc = "returned"
    /\ (wr.pc = "returned" /\ wr.result = "None")
         => wr.flash_retries = 0 /\ wr.power_cycles = 0

\* Witness of C29: the first attempt failed in the credential injection, the
\* second ran the whole sequence again and the device is returned.
RestartedAfterLateFailure ==
    /\ wr.pc = "returned"
    /\ wr.result = "device"
    /\ wr.flash_attempt = 2
    /\ wr.prev = Len(WriteSequence)
    /\ wr.steps = WriteSequence
    /\ wr.power_cycles = 2

(***************************************************************************)
(* Properties of the single-tier main                                       *)
(***************************************************************************)

\* C30: however main_logic ends, main sets the recorder stop flag before it
\* joins any thread, joins every registered recorder thread in turn, each
\* for at most 5 seconds, and returns or raises only after that.
RecorderTeardown ==
    /\ (mn.pc = "join" \/ mn.joined # <<>>) => mn.flag_set /\ mn.flag
    /\ mn.wait <= JOIN_TIMEOUT
    /\ mn.pc \in {"for", "exited"} => mn.joined = SubSeq(mn.threads, 1, mn.idx)
    /\ mn.pc = "join" => mn.joined = SubSeq(mn.threads, 1, mn.idx - 1)
    /\ mn.pc = "exited"
         => /\ mn.flag_set
            /\ mn.joined = mn.threads
            /\ mn.exit = ExitOfMain(mn.raised)
    /\ mn.exit # "none" => mn.pc = "exited"

\* Witness of C30: main_logic raised an error with two recorder threads
\* registered; both were joined, the second for the full 5 seconds, and main
\* re-raises.
ErrorJoinedBoth ==
    /\ mn.pc = "exited"
    /\ mn.raised = "Exception"
    /\ mn.exit = "raise"
    /\ mn.joined = <<1, 2>>
    /\ mn.timed_out = {2}

(***************************************************************************)
(* Properties of the fleet tier's error handling                            *)
(***************************************************************************)

\* The steps of a run whose flash cycle ended with exception e: the release
\* frees the lock file, and neither the cleanup nor the handlers write to a
\* lock file or record a blacklisting.
ReleasedNotBlacklisted(e) ==
    \A c \in Ctrls :
        (ctrl[c].cycle = e /\ ctrl'[c] # ctrl[c])
          => /\ ctrl[c].pc = "release" => IsFree(lockfiles'[ctrl[c].device])
             /\ ctrl[c].pc \in {"cleanup", "handler"}
                  => lockfiles' = lockfiles /\ terminal' = terminal

\* C31: a user interrupt during the remote flash is no flash failure; the
\* lock file is released, no blacklist reason is written, and after that the
\* interrupt is what the handlers of execute receive.
InterruptReachesHandler ==
    /\ [](\A c \in Ctrls :
            ctrl[c].cycle = "KeyboardInterrupt"
              => /\ ~ctrl[c].flash_failed
                 /\ ctrl[c].pc = "handler" => ctrl[c].exc = "KeyboardInterrupt")
    /\ [][ReleasedNotBlacklisted("KeyboardInterrupt")]_vars

\* C32: when the image file does not exist ImageNameError is raised with no
\* remote command dispatched; the lock file is released and no blacklist
\* reason is written.
MissingImage ==
    /\ [](\A c \in Ctrls :
            (ctrl[c].cycle = "ImageNameError" /\ ctrl[c].pc = "release")
              => ctrl[c].remote = 0 /\ ctrl[c].exc = "ImageNameError")
    /\ [][ReleasedNotBlacklisted("ImageNameError")]_vars

\* Witness of C32: a run whose image was missing has released the lock file
\* and run the cleanup, and ImageNameError is on its way to the handlers.
MissingImageReleased ==
    \E c \in Ctrls : /\ ctrl[c].pc = "handler"
                     /\ ctrl[c].cycle = "ImageNameError"
                     /\ ctrl[c].exc = "ImageNameError"
                     /\ ctrl[c].remote = 1
                     /\ IsFree(lockfiles[ctrl[c].device])

\* C33: a plain flash that failed with blacklisting enabled appends the
\* blacklist reason whether or not the cleanup command succeeded.
BlacklistsDespiteCleanup ==
    [][\A c \in Ctrls :
         (ctrl[c].pc = "handler" /\ ctrl'[c] # ctrl[c] /\ ctrl[c].cycle = "failed"
            /\ ~ctrl[c].no_black_listing /\ ~ctrl[c].boot)
           => lockfiles'[ctrl[c].device] = Append(lockfiles[ctrl[c].device], BLACKLISTED)]_vars

\* C34: a flash-and-boot (--boot) that failed with blacklisting enabled
\* appends the blacklist reason as a plain flash does.
BootFailureBlacklists ==
    [][\A c \in Ctrls :
         (ctrl[c].pc = "handler" /\ ctrl'[c] # ctrl[c] /\ ctrl[c].cycle = "failed"
            /\ ~ctrl[c].no_black_listing /\ ctrl[c].boot)
           => lockfiles'[ctrl[c].device] = Append(lockfiles[ctrl[c].device], BLACKLISTED)]_vars


\* Properties of the host-local lock across device identities

\* C35: the host-local lock is keyed by the host and not by the device:
\* every candidate is claimed through the one lock path, so two processes
\* never hold reservations of two different devices at once, and a sweep
\* whose first claim finds the lock free returns the first candidate.
HostKeyedLock ==
    /\ [](\A p, q \in Procs :
            (Holds(p) /\ Holds(q) /\ p # q) => proc[p].device = proc[q].device)
    /\ [][\A p \in Procs :
            (/\ proc[p].pc = "flock"
             /\ proc[p].cand = 1
             /\ FlockGranted(proc[p].lockfile)
             /\ proc'[p] # proc[p]) => proc'[p].device = 1]_vars


\* Properties of the cutter's failures in _enter_mode

\* The cutter raised in this step: disconnect in detach(), connect in attach().
CutterErrorStep ==
    /\ dut.pc \in {"detach", "attach"}
    /\ dut'.cutter_errors = dut.cutter_errors + 1

\* C36: a cutter error raised by connect or disconnect is logged and ends
\* its attempt as a failed one while the retry loop goes on; the mode-entry
\* failure is raised only when RETRY_ATTEMPTS attempts were begun and all of
\* them failed.
CutterErrorConsumesAttempt ==
    /\ [](dut.pc = "raised" => /\ dut.attempt = RETRY_ATTEMPTS
                               /\ dut.failed = RETRY_ATTEMPTS)
    /\ [](dut.cutter_errors <= dut.failed)
    /\ [][CutterErrorStep => /\ dut'.pc = "for"
                             /\ dut'.attempt = dut.attempt
                             /\ dut'.failed = dut.failed + 1]_vars

\* The mode-entry failure reached the caller after a cutter error in the
\* first attempt.
RaisedAfterCutterError ==
    /\ dut.pc = "raised"
    /\ dut.cutter_errors >= 1
    /\ dut.attempt = RETRY_ATTEMPTS


\* Properties of the pins of the device

\* C37: hardware is touched only under reservation: a pin changes only in
\* a step of a process that holds the reservation, and the devices a
\* process builds at the start of reserve() leave the pins as they are
\* while another process holds a reservation.
HardwareOnlyUnderReservation ==
    /\ [][gpio' # gpio => \E p \in Procs : Holds(p) /\ proc'[p] # proc[p]]_vars
    /\ [][\A p \in Procs :
            (/\ proc[p].pc = "idle"
             /\ proc'[p] # proc[p]
             /\ \E q \in Procs \ {p} : Holds(q)) => gpio' = gpio]_vars


\* Properties of the degenerate arguments of _do_reserve and _flash

\* C38: _do_reserve with candidates and a timeout of zero or less raises
\* AFTTimeoutError with no lock file opened, no flock tried and no sleep,
\* whether or not the lock is free.
NoTimeNoAttempt ==
    /\ [](\A p \in Procs :
            (proc[p].ndev > 0 /\ proc[p].timeout <= 0)
              => /\ proc[p].pc \in {"while", "out"}
                 /\ proc[p].tries = 0
                 /\ proc[p].elapsed = 0
                 /\ proc[p].lockfile = 0
                 /\ proc[p].device = 0
                 /\ proc[p].pc = "out" => proc[p].outcome = "AFTTimeoutError")
    /\ [][\A p \in Procs :
            (/\ proc[p].pc = "while"
             /\ proc[p].timeout <= 0
             /\ proc'[p] # proc[p])
              => /\ proc'[p].pc = "out"
                 /\ proc'[p].outcome = "AFTTimeoutError"
                 /\ path' = path
                 /\ locked' = locked]_vars

\* The timeout error was raised for a timeout of zero or less while there
\* was no lock file and nobody held a flock.
TimedOutWhileFree ==
    \E p \in Procs :
        /\ proc[p].pc = "out"
        /\ proc[p].outcome = "AFTTimeoutError"
        /\ proc[p].ndev > 0
        /\ proc[p].timeout <= 0
        /\ path = 0
        /\ \A i \in Inodes : locked[i] = 0


\* C39: _flash with flash_retries of zero or less calls write_image not
\* once, leaves the reservation and the pins as they are, raises nothing
\* and returns None to the body of the scope, which goes on.
NoRetriesNoFlash ==
    /\ [](\A p \in Procs :
            (proc[p].flash_retries <= 0 /\ proc[p].pc \in {"flash", "write", "body"})
              => /\ proc[p].pc # "write"
                 /\ proc[p].writes = 0
                 /\ proc[p].flash_attempt = 0
                 /\ Holds(p)
                 /\ KeepsFlock(p)
                 /\ proc[p].outcome = "none"
                 /\ proc[p].pc = "body" => proc[p].flashres = "None")
    /\ [][\A p \in Procs :
            (/\ proc[p].pc = "flash"
             /\ proc[p].flash_retries <= 0
             /\ proc'[p] # proc[p])
              => /\ proc'[p].pc = "body"
                 /\ proc'[p].flashres = "None"
                 /\ proc'[p].device = proc[p].device
                 /\ proc'[p].lock_files = proc[p].lock_files
                 /\ path' = path
                 /\ locked' = locked
                 /\ gpio' = gpio]_vars

\* _flash returned None for flash_retries of zero or less and the body of
\* the scope runs with the reservation held.
BodyRunsUnflashed ==
    \E p \in Procs :
        /\ proc[p].pc = "body"
        /\ proc[p].flashres = "None"
        /\ proc[p].flash_retries <= 0
        /\ proc[p].writes = 0
        /\ Holds(p)
        /\ KeepsFlock(p)

====
